---- MODULE Spec2Model ----
(***************************************************************************)
(* State-machine model of dvisvgm's PostScript special handler             *)
(* (PsSpecialHandler.cpp): the section state machine, the graphics state,  *)
(* the clipping stack with its shared clip paths, the tiling-pattern       *)
(* capture and the output cursor.                                          *)
(*                                                                         *)
(* A handler call (preprocess, process, dviEndPage) is a sequence of       *)
(* steps; pc tells where the running handler is.  While pc names a run of  *)
(* the PostScript interpreter (_psi.execute), the interpreter may invoke   *)
(* any operator callback; each callback is one action.                     *)
(***************************************************************************)
EXTENDS Integers, Sequences, FiniteSets, TLC

\* ------------------------------------------------------------- bounds
\* depth of the clipping stack explored
MaxDepth == 3
\* number of clip path identifiers handed out (_maxID is capped here)
MaxClipID == 2
\* save ids the interpreter passes to save/restore are 0..MaxSaveID
MaxSaveID == 1
\* path geometry is a set of regions 1..NumRegions
NumRegions == 2
\* number of pattern objects created by makepattern
MaxPatObjs == 2
\* pattern ids passed to makepattern/setpattern are 1..MaxPatID
MaxPatID == 1
\* header code chunks accumulated by '!' specials
MaxHeaderCode == 1
\* gsave+grestore pairs counted by the pair observer
MaxPairCount == 2
\* patches in the data of one shfill call
MaxPatches == 2
\* vertices per row and vertices in the data of a lattice mesh
MaxWidth == 4
MaxVertices == 12
\* largest coordinate of a DVI position
MaxPos == 1

\* ------------------------------------------------------------- values
\* DVI positions (x, y)
Positions == (0..MaxPos) \X (0..MaxPos)
Origin == <<0, 0>>
\* nullptr: no clip path, no pattern, and as output cursor the page root
Null == 0
\* scope tag of an entry pushed by gsave
GsaveTag == -1
\* sink of clipPath and pattern definitions (SVGTree::appendToDefs)
DefsNode == -1
\* the <g> element createImageNode puts the elements of an EPS/PDF file in
ImgNode == MaxPatObjs + 1
Regions == 1..NumRegions
Geoms == SUBSET Regions
SaveIDs == 0..MaxSaveID
PatIDs == 1..MaxPatID
BLACK == <<0, 0, 0>>
Sections == {"PS_NONE", "PS_HEADERS", "PS_BODY"}

VARIABLES
    \* section state machine and the running handler
    psSection, pc, handler, actionsSet, headerCode,
    \* graphics state
    linewidth, linecap, linejoin, miterlimit, fillalpha, strokealpha,
    blendmode, dashpattern, dashoffset, currentcolor, path,
    \* clipping stack: entries, the Path objects they point to, _maxID
    clipStack, heap, maxID,
    \* patterns and output cursor
    patterns, pattern, patternEnabled, nextPat, xmlnode, savenode,
    \* collaborators: color tracked by SpecialActions, configuration
    actionsColor, COMPUTE_CLIPPATHS_INTERSECTIONS,
    \* the elements emitted by the last step, in order,
    \* and whether the inclusion subgroup is still empty
    out, imgEmpty,
    \* observers: last step taken, and histories the properties refer to
    lastOp, lastArg, pre, bracket, pairs, capStack, colorLatest, shin,
    imgSaved, cmds, definedIDs, scope, dviBefore,
    \* the locals of processLatticeTriangularPatchMesh while it runs
    mesh,
    \* the transformation matrix of the actions, ((a,c,e),(b,d,f),(0,0,1)) as
    \* <<a, c, e, b, d, f>>
    actionsMatrix,
    \* the DVI cursor position of the actions (getX/getY), and the locals x
    \* and y of imgfile
    dviPos, imgXY

lifeVars == <<psSection, pc, handler, actionsSet, headerCode>>
styleVars == <<linewidth, linecap, linejoin, miterlimit, fillalpha,
               strokealpha, blendmode, dashpattern, dashoffset>>
colorVars == <<currentcolor, actionsColor>>
clipVars == <<clipStack, heap, maxID>>
patVars == <<patterns, pattern, patternEnabled, nextPat>>
nodeVars == <<xmlnode, savenode>>
outVars == <<out, imgEmpty>>
obsVars == <<lastOp, lastArg, pre, bracket, pairs, capStack, colorLatest,
            shin, imgSaved, cmds, definedIDs, scope, dviBefore>>
vars == <<lifeVars, styleVars, colorVars, path, clipVars, patVars, nodeVars,
          COMPUTE_CLIPPATHS_INTERSECTIONS, outVars, obsVars, mesh,
          actionsMatrix, dviPos, imgXY>>

\* ------------------------------------------------------------- clipping stack
\* The stack is a sequence, top last.  An entry's path and prependedPath are
\* shared_ptr<Path>: addresses into heap (Null = no path).  heap maps the
\* address of a live Path object to its geometry, a set of regions.
Top(s) == s[Len(s)]
Front(s) == SubSeq(s, 1, Len(s) - 1)

\* Entry(saveID): an entry without clip path
Entry(saveID) ==
    [path |-> Null, pathID |-> 0, saveID |-> saveID, prependedPath |-> Null]

\* Entry(): the default-constructed entry
DefaultEntry == Entry(GsaveTag)

\* ClippingStack::topID()
topID(s) == IF s = <<>> THEN 0 ELSE Top(s).pathID

\* ClippingStack::path()
topPath(s) == IF s = <<>> THEN Null ELSE Top(s).path

\* ClippingStack::prependedPath()
prependedPath(s) == IF s = <<>> THEN Null ELSE Top(s).prependedPath

\* Path::operator==: geometrically identical
PathEq(p, q) == p = q

\* shared_ptr ownership: a Path object lives as long as an entry points to it
Live(s) ==
    {s[i].path : i \in 1..Len(s)} \cup {s[i].prependedPath : i \in 1..Len(s)}
Release(s, h) == [a \in (DOMAIN h) \cap Live(s) |-> h[a]]

\* make_shared<Path>(p): a new object; its address is the allocation's serial
\* number, and every allocation is paired with ++_maxID
Alloc(h, a, p) == [x \in (DOMAIN h) \cup {a} |-> IF x = a THEN p ELSE h[x]]

\* ClippingStack::pushEmptyPath
pushEmptyPath(s) == IF s # <<>> THEN Append(s, DefaultEntry) ELSE s

\* ClippingStack::push; c = [stack, heap, maxID]
push(c, p, saveID) ==
    LET pp == IF c.stack # <<>> THEN Top(c.stack).prependedPath ELSE Null
    IN  IF p = {}
        THEN [c EXCEPT !.stack = Append(c.stack,
                                   [Entry(saveID) EXCEPT !.prependedPath = pp])]
        ELSE [stack |-> Append(c.stack,
                           [path |-> c.maxID + 1, pathID |-> c.maxID + 1,
                            saveID |-> saveID, prependedPath |-> pp]),
              heap |-> Alloc(c.heap, c.maxID + 1, p),
              maxID |-> c.maxID + 1]

RECURSIVE PopGsaves(_)
\* while (!_stack.empty() && _stack.top().saveID < 0) _stack.pop()
PopGsaves(s) ==
    IF s # <<>> /\ Top(s).saveID < 0 THEN PopGsaves(Front(s)) ELSE s

\* variant: restore pops gsave entries only before it pops one entry
PopUntilGsaveOnly(s, saveID) == PopGsaves(s)

RECURSIVE PopUntil(_, _)
\* while (!_stack.empty() && _stack.top().saveID != saveID) _stack.pop()
PopUntil(s, saveID) ==
    IF s # <<>> /\ Top(s).saveID # saveID THEN PopUntil(Front(s), saveID) ELSE s

\* variant: grestore leaves gsave entries on the stack
popKeepsGsave(s, saveID, grestoreall) ==
    IF s = <<>> \/ saveID < 0 THEN s
    ELSE LET s1 == PopUntil(s, saveID)
         IN  IF s1 # <<>> THEN Front(s1) ELSE s1

\* variant: grestore pops every gsave entry on top, as grestoreall does
popAllGsaves(s, saveID, grestoreall) ==
    IF s = <<>> THEN s
    ELSE IF saveID < 0 THEN PopGsaves(s)
         ELSE LET s1 == PopUntil(s, saveID)
              IN  IF s1 # <<>> THEN Front(s1) ELSE s1

\* variant: grestoreall pops one gsave entry only, as grestore does
popOnce(s, saveID, grestoreall) ==
    IF s = <<>> THEN s
    ELSE IF saveID < 0
         THEN IF Top(s).saveID < 0 THEN Front(s) ELSE s
         ELSE LET s1 == PopUntil(s, saveID)
              IN  IF s1 # <<>> THEN Front(s1) ELSE s1

\* ClippingStack::pop(saveID, grestoreall)
pop(s, saveID, grestoreall) ==
    IF s = <<>> THEN s
    ELSE IF saveID < 0
         THEN LET s1 == IF Top(s).saveID < 0 THEN Front(s) ELSE s
              IN  IF grestoreall THEN PopGsaves(s1) ELSE s1
         ELSE LET s1 == PopUntil(s, saveID)
              IN  IF s1 # <<>> THEN Front(s1) ELSE s1

\* variant: the copy keeps the scope tag of the entry it copies
dupUntagged(s, saveID) ==
    Append(s, IF s = <<>> THEN DefaultEntry ELSE Top(s))

\* ClippingStack::dup(saveID)
dup(s, saveID) ==
    Append(s, [(IF s = <<>> THEN DefaultEntry ELSE Top(s)) EXCEPT !.saveID = saveID])

\* variant: the new geometry is written into the Path object the top entry
\* points to, which entries beneath may share
replaceInPlace(c, p) ==
    IF c.stack = <<>>
    THEN [changed |-> TRUE] @@ push(c, p, GsaveTag)
    ELSE IF Top(c.stack).path = Null
    THEN [stack |-> [c.stack EXCEPT ![Len(c.stack)].path = c.maxID + 1,
                                    ![Len(c.stack)].pathID = c.maxID + 1],
          heap |-> Alloc(c.heap, c.maxID + 1, p),
          maxID |-> c.maxID + 1,
          changed |-> TRUE]
    ELSE IF PathEq(p, c.heap[Top(c.stack).path])
    THEN [changed |-> FALSE] @@ c
    ELSE [stack |-> c.stack,
          heap |-> [c.heap EXCEPT ![Top(c.stack).path] = p],
          maxID |-> c.maxID,
          changed |-> TRUE]

\* a replace that never compares the new path with the top path
replaceAlways(c, p) ==
    IF c.stack = <<>>
    THEN [changed |-> TRUE] @@ push(c, p, GsaveTag)
    ELSE [stack |-> [c.stack EXCEPT ![Len(c.stack)].path = c.maxID + 1,
                                    ![Len(c.stack)].pathID = c.maxID + 1],
          heap |-> Alloc(c.heap, c.maxID + 1, p),
          maxID |-> c.maxID + 1,
          changed |-> TRUE]

\* a replace that puts a new gsave-tagged entry in the place of the top entry
replaceRetags(c, p) ==
    IF c.stack = <<>>
    THEN [changed |-> TRUE] @@ push(c, p, GsaveTag)
    ELSE IF Top(c.stack).path # Null /\ PathEq(p, c.heap[Top(c.stack).path])
         THEN [changed |-> FALSE] @@ c
         ELSE [changed |-> TRUE]
                  @@ push([c EXCEPT !.stack = Front(c.stack)], p, GsaveTag)

\* variant: a replaced top entry keeps the identifier it has
replaceReusesID(c, p) ==
    IF c.stack = <<>>
    THEN [changed |-> TRUE] @@ push(c, p, GsaveTag)
    ELSE IF Top(c.stack).path # Null /\ PathEq(p, c.heap[Top(c.stack).path])
         THEN [changed |-> FALSE] @@ c
         ELSE [stack |-> [c.stack EXCEPT
                              ![Len(c.stack)].path = c.maxID + 1,
                              ![Len(c.stack)].pathID =
                                  IF @ # 0 THEN @ ELSE c.maxID + 1],
               heap |-> Alloc(c.heap, c.maxID + 1, p),
               maxID |-> c.maxID + 1,
               changed |-> TRUE]

\* ClippingStack::replace; result [stack, heap, maxID, changed]
replace(c, p) ==
    IF c.stack = <<>>
    THEN [changed |-> TRUE] @@ push(c, p, GsaveTag)
    ELSE IF Top(c.stack).path # Null /\ PathEq(p, c.heap[Top(c.stack).path])
         THEN [changed |-> FALSE] @@ c
         ELSE [stack |-> [c.stack EXCEPT ![Len(c.stack)].path = c.maxID + 1,
                                         ![Len(c.stack)].pathID = c.maxID + 1],
               heap |-> Alloc(c.heap, c.maxID + 1, p),
               maxID |-> c.maxID + 1,
               changed |-> TRUE]

\* variant: the prepended path stays on the top entry
keepPrependedPath(s) == s

\* ClippingStack::removePrependedPath
removePrependedPath(s) ==
    IF s # <<>> THEN [s EXCEPT ![Len(s)].prependedPath = Null] ELSE s

\* ClippingStack::setPrependedPath
setPrependedPath(s) ==
    IF s # <<>> THEN [s EXCEPT ![Len(s)].prependedPath = Top(s).path] ELSE s

\* ClippingStack::clear
clear(s) == <<>>

\* ------------------------------------------------------------- output elements
\* An emitted XML element: tag, the node it is appended to (sink: Null = page,
\* DefsNode, a pattern container or ImgNode) and the attributes the
\* properties read.  fill: "absent" | "none" | "color" | "pattern"; cap:
\* stroke-linecap, join: stroke-linejoin ("absent" or the name written);
\* r: the radius of a circle, a fraction <<numerator, denominator>>.
NoElem ==
    [tag |-> "", sink |-> Null, fill |-> "absent", patref |-> Null,
     clip |-> 0, id |-> 0, evenodd |-> FALSE, geom |-> {},
     cap |-> "absent", join |-> "absent", r |-> <<0, 1>>]
Elem(tag, sink) == [NoElem EXCEPT !.tag = tag, !.sink = sink]

\* ------------------------------------------------------------- matrices
\* Matrix(): the identity
IdentityMatrix == <<1, 0, 0, 0, 1, 0>>

\* vector<double>::resize(n): new elements are value-initialized
resize(v, n) == [k \in 1..n |-> IF k <= Len(v) THEN v[k] ELSE 0]

\* std::swap(v[i], v[j])
swap(v, i, j) == [v EXCEPT ![i + 1] = v[j + 1], ![j + 1] = v[i + 1]]

RECURSIVE identityLoop(_, _, _)
\* create_matrix: for (size_t i = ...; i < 6; ++i)
\*                    v[i+startindex] = (i%3 ? 0 : 1)
identityLoop(v, i, startindex) ==
    IF i < 6
    THEN identityLoop([v EXCEPT ![i + startindex + 1] =
                                    IF i % 3 # 0 THEN 0 ELSE 1],
                      i + 1, startindex)
    ELSE v

\* create_matrix(v, startindex, matrix), for a vector of at least startindex
\* values; the loop starts at v.size()-startindex, read after the resize.
\* The result is the matrix set from the six values at startindex
create_matrix(v, startindex) ==
    LET v1 == IF Len(v) - startindex < 6
              THEN LET r == resize(v, 6 + startindex)
                   IN  identityLoop(r, Len(r) - startindex, startindex)
              ELSE v
        v2 == swap(v1, startindex + 1, startindex + 2)
        v3 == swap(v2, startindex + 2, startindex + 4)
        v4 == swap(v3, startindex + 3, startindex + 4)
    IN  SubSeq(v4, startindex + 1, startindex + 6)

\* Matrix::lmultiply: m becomes a * m
lmultiply(m, a) ==
    <<a[1] * m[1] + a[2] * m[4], a[1] * m[2] + a[2] * m[5],
      a[1] * m[3] + a[2] * m[6] + a[3],
      a[4] * m[1] + a[5] * m[4], a[4] * m[2] + a[5] * m[5],
      a[4] * m[3] + a[5] * m[6] + a[6]>>

\* ------------------------------------------------------------- lattice mesh
\* The data of a lattice mesh is a stream of vertices (point and color); a
\* vertex is named by its place in the stream, 0 is a default-constructed
\* vertex.  mesh holds the call: phase, verticesPerRow W, the number n of
\* vertices in the data, the number pos of vertices read, the two row
\* buffers, up: the buffer rowptr1 points to, tris: the triangles approximated
\* by the last step, count: the triangles approximated so far.
NoMesh ==
    [phase |-> "none", W |-> 0, n |-> 0, pos |-> 0, row1 |-> <<>>,
     row2 |-> <<>>, up |-> 1, tris |-> <<>>, count |-> 0]

\* VectorIterator::operator*: reading past the end of the data throws; a
\* row of W vertices cannot be read at position pos of n vertices
Exhausted(n, pos, W) == n - pos < W

\* the row of W vertices read at position pos
readRow(pos, W) == [i \in 1..W |-> pos + i]

\* *rowptr1 and *rowptr2
rowptr1(m) == IF m.up = 1 THEN m.row1 ELSE m.row2
rowptr2(m) == IF m.up = 1 THEN m.row2 ELSE m.row1

\* the triangles approximated for rows u and l: for each i the patches
\* (v1, v2, v3) and (v2, v3, v4)
triangles(u, l, W) ==
    [k \in 1..(2 * (W - 1)) |->
        LET i == (k + 1) \div 2
            v1 == u[i]
            v2 == u[i + 1]
            v3 == l[i]
            v4 == l[i + 1]
        IN  IF k % 2 = 1 THEN <<v1, v2, v3>> ELSE <<v2, v3, v4>>]

\* processLatticeTriangularPatchMesh up to the loop: the row width is read,
\* then the first row; reading past the end of the data throws
latticeBegin(W, n) ==
    IF W < 2 THEN [NoMesh EXCEPT !.phase = "done", !.W = W, !.n = n]
    ELSE IF Exhausted(n, 0, W)
    THEN [NoMesh EXCEPT !.phase = "thrown", !.W = W, !.n = n, !.pos = n]
    ELSE [NoMesh EXCEPT !.phase = "rows", !.W = W, !.n = n, !.pos = W,
                        !.row1 = readRow(0, W), !.row2 = [i \in 1..W |-> 0]]

\* variant: the rows are not swapped after a row pair
rowPairNoSwap(m) ==
    IF Exhausted(m.n, m.pos, m.W)
    THEN [m EXCEPT !.phase = "thrown", !.pos = m.n, !.tris = <<>>]
    ELSE LET l == readRow(m.pos, m.W)
             t == triangles(rowptr1(m), l, m.W)
         IN  [m EXCEPT !.row1 = IF m.up = 1 THEN @ ELSE l,
                       !.row2 = IF m.up = 1 THEN l ELSE @,
                       !.pos = @ + m.W,
                       !.tris = t,
                       !.count = @ + Len(t)]

\* one pass of the loop: the next row is read into *rowptr2, the triangles
\* of the two rows are approximated, the row pointers are swapped
rowPair(m) ==
    IF Exhausted(m.n, m.pos, m.W)
    THEN [m EXCEPT !.phase = "thrown", !.pos = m.n, !.tris = <<>>]
    ELSE LET l == readRow(m.pos, m.W)
             t == triangles(rowptr1(m), l, m.W)
         IN  [m EXCEPT !.row1 = IF m.up = 1 THEN @ ELSE l,
                       !.row2 = IF m.up = 1 THEN l ELSE @,
                       !.pos = @ + m.W,
                       !.tris = t,
                       !.count = @ + Len(t),
                       !.up = 3 - @]

\* ------------------------------------------------------------- observers
\* the identifiers of the clipPath definitions among the elements es
DefinedBy(es) ==
    {es[i].id : i \in {j \in 1..Len(es) : es[j].tag = "clipPath"}}

EmptyHeap == [a \in {} |-> {}]
NoBracket ==
    [phase |-> "none", id |-> 0, stack |-> <<>>, heap |-> EmptyHeap,
     inner |-> FALSE]
NoPairs == [phase |-> "none", size |-> 0, top |-> 0, n |-> 0]
ColorOps == {"setgray", "setrgbcolor", "setcmykcolor", "sethsbcolor"}

\* save(id) opens a bracket holding the stack as it was; gsave and grestore
\* keep it open (inner: one of them ran); restore(id) closes it; any other
\* step drops it
BracketNext(op, arg) ==
    IF op = "save"
    THEN [phase |-> "open", id |-> arg, stack |-> clipStack, heap |-> heap,
          inner |-> FALSE]
    ELSE IF op \in {"gsave", "grestore"} /\ bracket.phase = "open"
    THEN [bracket EXCEPT !.inner = TRUE]
    ELSE IF op = "restore" /\ bracket.phase = "open" /\ bracket.id = arg
    THEN [bracket EXCEPT !.phase = "closed"]
    ELSE NoBracket

\* a run gsave ... grestore gsave ... grestore, each pair enclosing path
\* construction and clip steps only: size and top id before the run, and the
\* number of pairs completed (counted up to MaxPairCount)
PairsNext(op) ==
    IF op = "gsave"
    THEN IF pairs.phase = "closed"
         THEN [pairs EXCEPT !.phase = "open"]
         ELSE [phase |-> "open", size |-> Len(clipStack),
               top |-> topID(clipStack), n |-> 0]
    ELSE IF op = "grestore" /\ pairs.phase = "open"
    THEN [pairs EXCEPT !.phase = "closed",
                       !.n = IF @ < MaxPairCount THEN @ + 1 ELSE @]
    ELSE IF op \in {"moveto", "clip"} /\ pairs.phase = "open"
    THEN pairs
    ELSE NoPairs

\* gsave opens a bracket holding size, top identifier and top clip path of
\* the stack; clip, initclip, clippath, newpath, stroke and fill keep it open
\* (reset: initclip was among them); grestore closes it; any other step
\* drops it
NoScope == [phase |-> "none", size |-> 0, top |-> 0, geom |-> {},
            reset |-> FALSE]
ScopeNext(op) ==
    IF op = "gsave"
    THEN [phase |-> "open", size |-> Len(clipStack), top |-> topID(clipStack),
          geom |-> IF topPath(clipStack) = Null THEN {}
                   ELSE heap[topPath(clipStack)],
          reset |-> FALSE]
    ELSE IF op = "grestore" /\ scope.phase = "open"
    THEN [scope EXCEPT !.phase = "closed"]
    ELSE IF op \in {"clip", "clippath", "newpath", "stroke", "fill"}
            /\ scope.phase = "open"
    THEN scope
    ELSE IF op = "initclip" /\ scope.phase = "open"
    THEN [scope EXCEPT !.reset = TRUE]
    ELSE NoScope

\* the handler steps in which initgraphics runs
RunsInitGraphics(op) ==
    \/ op \in {"PreprocessCall", "ProcessCall"} /\ psSection = "PS_NONE"
    \/ op = "dviEndPage" /\ psSection = "PS_BODY"

\* the output cursors in effect when the pattern definitions in progress began
CapNext(op, arg) ==
    IF op = "makepattern" /\ arg = 1 THEN Append(capStack, xmlnode)
    ELSE IF op = "makepattern" /\ arg = 0 /\ capStack # <<>> THEN Front(capStack)
    ELSE IF RunsInitGraphics(op) THEN <<>>
    ELSE capStack

\* "cleared"/"color": a color operator ran outside a pattern definition (and
\* found a pattern active / none active) and no setpattern ran since
ColorLatestNext(op) ==
    IF op \in ColorOps /\ capStack = <<>>
    THEN IF pattern # Null \/ colorLatest = "cleared" THEN "cleared" ELSE "color"
    ELSE IF op = "setpattern" THEN "no"
    ELSE colorLatest

\* pre: the clipping stack before the last step, kept for the steps of PreOps
NoPre == [stack |-> <<>>, heap |-> EmptyHeap]
PreOps == {"grestore", "grestoreall", "restore", "clip", "shfill"}

\* imgSaved: the output cursor at the moment process dispatched to imgfile,
\* until the handler returns
ImgSavedNext(op, arg) ==
    IF op = "Dispatch" /\ arg = 1 THEN xmlnode
    ELSE IF op \in {"ImgDone", "ProcessReturn", "ProcessCall", "PreprocessCall",
                    "dviEndPage"}
    THEN Null
    ELSE imgSaved

\* variant: every code special is preceded by a move to the DVI position
processBeforeAlwaysMoves(prefix, tag, inject) ==
    LET sync == IF inject THEN <<"setrgbcolor">> ELSE <<>>
    IN  IF prefix \in {"\"", "pst:"}
        THEN <<"moveToDVIPos", "@beginspecial">> \o sync
        ELSE <<"finishLine", "moveToDVIPos">> \o sync

\* variant: the color is set ahead of every piece of code
InjectsAlways(tag) == actionsSet /\ tag # "plotfile"

\* The part of process before the code of a code special runs, as the
\* commands it hands to the interpreter and the calls it makes on the
\* actions (lines 221-296).  tag: what the special begins with, "code" if it
\* is neither a bracketed tag of ps:: nor the plotfile keyword of ps:;
\* inject: executeAndSync finds the color of the actions changed
processBefore(prefix, tag, inject) ==
    LET sync == IF inject THEN <<"setrgbcolor">> ELSE <<>>
    IN  IF prefix \in {"\"", "pst:"}
        THEN <<"moveToDVIPos", "@beginspecial">> \o sync
        ELSE IF prefix = "ps::"
        THEN IF tag \in {"[begin]", "[nobreak]"}
             THEN <<"finishLine", "moveToDVIPos">> \o sync
             ELSE IF tag = "array"
             THEN <<"finishLine", "array">> \o sync
             ELSE <<"finishLine">> \o sync
        ELSE IF tag = "plotfile"
             THEN <<"finishLine", "moveToDVIPos">>
             ELSE <<"finishLine", "moveToDVIPos">> \o sync

\* The part of process after the code has run
processAfter(prefix, tag) ==
    IF prefix \in {"\"", "pst:"} THEN <<"@endspecial">>
    ELSE IF prefix = "ps::" THEN <<"querypos", "setXY">>
    ELSE IF tag = "plotfile" THEN <<>>
    ELSE <<"querypos", "setXY", "moveToDVIPos">>

\* executeAndSync: _actions && _actions->getColor() != _currentcolor
Injects(tag) == actionsSet /\ actionsColor # currentcolor /\ tag # "plotfile"

\* cmds: the commands of process issued by the last step
CmdsNext(op) ==
    IF op = "Dispatch" /\ handler.prefix \in {"\"", "pst:", "ps::", "ps:", "PST:"}
    THEN processBefore(handler.prefix, handler'.tag, Injects(handler'.tag))
    ELSE IF op = "ProcessReturn"
    THEN processAfter(handler.prefix, handler.tag)
    ELSE <<>>

\* shin: the parameters the last step, if an shfill call, was given, and
\* how the call ended ("returned" or "thrown")
NoInput == [op |-> "none"]

ObserveOnly(op, arg, input) ==
    /\ lastOp' = op
    /\ lastArg' = arg
    /\ pre' = IF op \in PreOps THEN [stack |-> clipStack, heap |-> heap]
              ELSE NoPre
    /\ bracket' = BracketNext(op, arg)
    /\ pairs' = PairsNext(op)
    /\ capStack' = CapNext(op, arg)
    /\ colorLatest' = ColorLatestNext(op)
    /\ shin' = input
    /\ imgSaved' = ImgSavedNext(op, arg)
    /\ cmds' = CmdsNext(op)
    /\ definedIDs' = definedIDs \cup DefinedBy(out')
    /\ scope' = ScopeNext(op)
    /\ dviBefore' = IF op = "Dispatch" /\ arg = 1 THEN dviPos ELSE dviBefore

\* a step of a handler or callback other than the lattice processor and
\* setmatrix
ObserveCall(op, arg, input) ==
    /\ ObserveOnly(op, arg, input)
    /\ mesh' = mesh
    /\ actionsMatrix' = actionsMatrix
    /\ dviPos' = dviPos
    /\ imgXY' = imgXY

Observe(op, arg) == ObserveCall(op, arg, NoInput)

\* ------------------------------------------------------------- graphics state
DefaultLineWidth == 1
DefaultMiterLimit == 4
ButtCap == 0
MiterJoin == 0
Opaque == 1
NormalBlend == 0

\* the variables initgraphics assigns
gfxVars == <<styleVars, currentcolor, path, clipStack, heap, pattern,
             patternEnabled, xmlnode, savenode>>

\* PsSpecialHandler::initgraphics
initgraphics ==
    /\ linewidth' = DefaultLineWidth
    /\ linecap' = ButtCap
    /\ linejoin' = MiterJoin
    /\ miterlimit' = DefaultMiterLimit
    /\ xmlnode' = Null
    /\ savenode' = Null
    /\ fillalpha' = <<Opaque, Opaque>>
    /\ strokealpha' = <<Opaque, Opaque>>
    /\ blendmode' = NormalBlend
    /\ pattern' = Null
    /\ patternEnabled' = FALSE
    /\ currentcolor' = BLACK
    /\ dashoffset' = 0
    /\ dashpattern' = <<>>
    /\ path' = {}
    /\ clipStack' = clear(clipStack)
    /\ heap' = EmptyHeap

\* the handler object after construction; nothing has been executed yet
Init ==
    /\ psSection = "PS_NONE"
    /\ pc = "idle"
    /\ handler = [name |-> "none", prefix |-> "", tag |-> ""]
    /\ actionsSet = FALSE
    /\ headerCode = 0
    /\ linewidth = DefaultLineWidth
    /\ linecap = ButtCap
    /\ linejoin = MiterJoin
    /\ miterlimit = DefaultMiterLimit
    /\ fillalpha = <<Opaque, Opaque>>
    /\ strokealpha = <<Opaque, Opaque>>
    /\ blendmode = NormalBlend
    /\ dashpattern = <<>>
    /\ dashoffset = 0
    /\ currentcolor = BLACK
    /\ path = {}
    /\ clipStack = <<>>
    /\ heap = EmptyHeap
    /\ maxID = 0
    /\ patterns = [i \in PatIDs |-> [obj |-> Null, paint |-> 0, matrix |-> IdentityMatrix]]
    /\ pattern = Null
    /\ patternEnabled = FALSE
    /\ nextPat = 0
    /\ xmlnode = Null
    /\ savenode = Null
    /\ actionsColor = BLACK
    /\ COMPUTE_CLIPPATHS_INTERSECTIONS \in BOOLEAN
    /\ out = <<>>
    /\ imgEmpty = TRUE
    /\ lastOp = "init"
    /\ lastArg = 0
    /\ pre = NoPre
    /\ bracket = NoBracket
    /\ pairs = NoPairs
    /\ capStack = <<>>
    /\ colorLatest = "no"
    /\ shin = NoInput
    /\ imgSaved = Null
    /\ cmds = <<>>
    /\ definedIDs = {}
    /\ scope = NoScope
    /\ dviBefore = Origin
    /\ dviPos = Origin
    /\ imgXY = Origin
    /\ mesh = NoMesh
    /\ actionsMatrix = IdentityMatrix

\* the handler after construction when the static option
\* COMPUTE_CLIPPATHS_INTERSECTIONS keeps its initial value
InitDefault == Init /\ COMPUTE_CLIPPATHS_INTERSECTIONS = FALSE

\* the handler while the code of the first body special of a document is
\* executed (process has called initialize and enterBodySection)
InitBody ==
    /\ psSection = "PS_BODY"
    /\ pc = "body"
    /\ handler = [name |-> "process", prefix |-> "ps:", tag |-> "code"]
    /\ actionsSet = TRUE
    /\ headerCode = 0
    /\ linewidth = DefaultLineWidth
    /\ linecap = ButtCap
    /\ linejoin = MiterJoin
    /\ miterlimit = DefaultMiterLimit
    /\ fillalpha = <<Opaque, Opaque>>
    /\ strokealpha = <<Opaque, Opaque>>
    /\ blendmode = NormalBlend
    /\ dashpattern = <<>>
    /\ dashoffset = 0
    /\ currentcolor = BLACK
    /\ path = {}
    /\ clipStack = <<>>
    /\ heap = EmptyHeap
    /\ maxID = 0
    /\ patterns = [i \in PatIDs |-> [obj |-> Null, paint |-> 0, matrix |-> IdentityMatrix]]
    /\ pattern = Null
    /\ patternEnabled = FALSE
    /\ nextPat = 0
    /\ xmlnode = Null
    /\ savenode = Null
    /\ actionsColor = BLACK
    /\ COMPUTE_CLIPPATHS_INTERSECTIONS \in BOOLEAN
    /\ out = <<>>
    /\ imgEmpty = TRUE
    /\ lastOp = "Dispatch"
    /\ lastArg = 0
    /\ pre = NoPre
    /\ bracket = NoBracket
    /\ pairs = NoPairs
    /\ capStack = <<>>
    /\ colorLatest = "no"
    /\ shin = NoInput
    /\ imgSaved = Null
    /\ cmds = <<>>
    /\ definedIDs = {}
    /\ scope = NoScope
    /\ dviBefore = Origin
    /\ dviPos = Origin
    /\ imgXY = Origin
    /\ mesh = NoMesh
    /\ actionsMatrix = IdentityMatrix

\* ------------------------------------------------------------- handlers
Idle == [name |-> "none", prefix |-> "", tag |-> ""]
\* the interpreter is running code of the document, which may invoke any
\* operator callback (the dvips prologue run by initialize defines procedures
\* only)
Running == pc \in {"hdrfile", "hdrcode", "body", "img"}
HeaderPrefixes == {"!", "header="}
CodePrefixes == {"\"", "pst:", "ps::", "ps:", "PST:"}
FilePrefixes == {"psfile=", "PSfile=", "pdffile="}

\* PsSpecialHandler::initialize, up to the execution of the prologue files
initialize ==
    IF psSection = "PS_NONE"
    THEN /\ initgraphics
         /\ pc' = "prologue"
    ELSE /\ UNCHANGED gfxVars
         /\ pc' = "afterinit"

\* initialize: the prologue has been executed
InitializeDone ==
    /\ pc = "prologue"
    /\ psSection' = "PS_HEADERS"
    /\ pc' = "afterinit"
    /\ out' = <<>>
    /\ UNCHANGED <<handler, actionsSet, headerCode, gfxVars, maxID, patterns,
                   nextPat, actionsColor, COMPUTE_CLIPPATHS_INTERSECTIONS,
                   imgEmpty>>
    /\ Observe("InitializeDone", 0)

\* PsSpecialHandler::preprocess: the call, with its call of initialize
PreprocessCall(prefix) ==
    /\ pc = "idle"
    /\ handler' = [name |-> "preprocess", prefix |-> prefix, tag |-> ""]
    /\ initialize
    /\ out' = <<>>
    /\ UNCHANGED <<psSection, actionsSet, headerCode, maxID, patterns, nextPat,
                   actionsColor, COMPUTE_CLIPPATHS_INTERSECTIONS, imgEmpty>>
    /\ Observe("PreprocessCall", 0)

\* preprocess after initialize: collect header code or run a header file
PreprocessBody(found) ==
    /\ pc = "afterinit"
    /\ handler.name = "preprocess"
    /\ IF psSection # "PS_HEADERS"
       THEN /\ pc' = "idle"
            /\ handler' = Idle
            /\ UNCHANGED <<actionsSet, headerCode>>
       ELSE /\ actionsSet' = TRUE
            /\ headerCode' = IF handler.prefix = "!" /\ headerCode < MaxHeaderCode
                             THEN headerCode + 1 ELSE headerCode
            /\ IF handler.prefix = "header=" /\ found
               THEN pc' = "hdrfile" /\ UNCHANGED handler
               ELSE pc' = "idle" /\ handler' = Idle
    /\ out' = <<>>
    /\ UNCHANGED <<psSection, gfxVars, maxID, patterns, nextPat, actionsColor,
                   COMPUTE_CLIPPATHS_INTERSECTIONS, imgEmpty>>
    /\ Observe("PreprocessBody", 0)

\* processHeaderFile called by preprocess: the file has been executed
HeaderFileDone ==
    /\ pc = "hdrfile"
    /\ pc' = "idle"
    /\ handler' = Idle
    /\ out' = <<>>
    /\ UNCHANGED <<psSection, actionsSet, headerCode, gfxVars, maxID, patterns,
                   nextPat, actionsColor, COMPUTE_CLIPPATHS_INTERSECTIONS,
                   imgEmpty>>
    /\ Observe("HeaderFileDone", 0)

\* PsSpecialHandler::process: the call, with its call of initialize
ProcessCall(prefix) ==
    /\ pc = "idle"
    /\ IF prefix \in HeaderPrefixes
       THEN UNCHANGED <<pc, handler, actionsSet, gfxVars>>
       ELSE /\ actionsSet' = TRUE
            /\ handler' = [name |-> "process", prefix |-> prefix, tag |-> ""]
            /\ initialize
    /\ out' = <<>>
    /\ UNCHANGED <<psSection, headerCode, maxID, patterns, nextPat,
                   actionsColor, COMPUTE_CLIPPATHS_INTERSECTIONS, imgEmpty>>
    /\ Observe("ProcessCall", 0)

\* PsSpecialHandler::enterBodySection, called by process when the section is
\* not PS_BODY; the collected header code is then executed
EnterBodySection ==
    /\ pc = "afterinit"
    /\ handler.name = "process"
    /\ IF psSection # "PS_BODY" /\ psSection = "PS_HEADERS"
       THEN /\ psSection' = "PS_BODY"
            /\ headerCode' = 0
            /\ pc' = "hdrcode"
       ELSE /\ pc' = "dispatch"
            /\ UNCHANGED <<psSection, headerCode>>
    /\ out' = <<>>
    /\ UNCHANGED <<handler, actionsSet, gfxVars, maxID, patterns, nextPat,
                   actionsColor, COMPUTE_CLIPPATHS_INTERSECTIONS, imgEmpty>>
    /\ Observe("EnterBodySection", 0)

\* enterBodySection returns
EnterBodyDone ==
    /\ pc = "hdrcode"
    /\ pc' = "dispatch"
    /\ out' = <<>>
    /\ UNCHANGED <<psSection, handler, actionsSet, headerCode, gfxVars, maxID,
                   patterns, nextPat, actionsColor,
                   COMPUTE_CLIPPATHS_INTERSECTIONS, imgEmpty>>
    /\ Observe("EnterBodyDone", 0)

\* what a code special can begin with, as process reads it: the bracketed
\* tags of ps::, an array being any other text in brackets, and the plotfile
\* keyword of ps: and PST:
DispatchTags(prefix) ==
    IF prefix = "ps::" THEN {"code", "[begin]", "[nobreak]", "[end]", "array"}
    ELSE IF prefix \in {"ps:", "PST:"} THEN {"code", "plotfile"}
    ELSE {"code"}

\* file names are sequences of characters
Upper == <<"A", "B", "C", "D", "E", "F", "G", "H", "I", "J", "K", "L", "M",
           "N", "O", "P", "Q", "R", "S", "T", "U", "V", "W", "X", "Y", "Z">>
Lower == <<"a", "b", "c", "d", "e", "f", "g", "h", "i", "j", "k", "l", "m",
           "n", "o", "p", "q", "r", "s", "t", "u", "v", "w", "x", "y", "z">>

\* util::tolower
tolower(str) ==
    [i \in 1..Len(str) |->
        IF \E k \in 1..Len(Upper) : Upper[k] = str[i]
        THEN Lower[CHOOSE k \in 1..Len(Upper) : Upper[k] = str[i]]
        ELSE str[i]]

\* string::rfind: the last position of c in str, npos being Null
rfind(str, c) ==
    IF \E i \in 1..Len(str) : str[i] = c
    THEN CHOOSE i \in 1..Len(str) :
            str[i] = c /\ \A j \in (i+1)..Len(str) : str[j] # c
    ELSE Null

\* filename_suffix
filename_suffix(fname) ==
    LET pos == rfind(fname, ".")
    IN  IF pos # Null THEN tolower(SubSeq(fname, pos + 1, Len(fname)))
        ELSE <<>>

\* variant: the file of a pdffile= special is a PDF file
fileTypePdfPrefix(prefix, fname) ==
    LET ext == filename_suffix(fname)
    IN  IF prefix = "pdffile=" THEN "PDF"
        ELSE IF ext = <<"p", "d", "f">> THEN "PDF"
        ELSE IF ext = <<"s", "v", "g">> THEN "SVG"
        ELSE IF ext \in {<<"j", "p", "g">>, <<"j", "p", "e", "g">>,
                         <<"p", "n", "g">>}
        THEN "BITMAP"
        ELSE "EPS"

\* process, lines 232-245: the file type handed to imgfile
fileType(prefix, fname) ==
    LET ext == filename_suffix(fname)
    IN  IF prefix = "pdffile" THEN "PDF"
        ELSE IF ext = <<"p", "d", "f">> THEN "PDF"
        ELSE IF ext = <<"s", "v", "g">> THEN "SVG"
        ELSE IF ext \in {<<"j", "p", "g">>, <<"j", "p", "e", "g">>,
                         <<"p", "n", "g">>}
        THEN "BITMAP"
        ELSE "EPS"

\* the file names of inclusion specials
FileNames ==
    { <<"a", ".", "p", "d", "f">>, <<"a", ".", "P", "d", "F">>,
      <<"a", ".", "s", "v", "g">>, <<"a", ".", "S", "V", "G">>,
      <<"a", ".", "j", "p", "g">>, <<"a", ".", "j", "p", "e", "g">>,
      <<"a", ".", "J", "p", "e", "G">>, <<"a", ".", "p", "n", "g">>,
      <<"a", ".", "P", "N", "G">>, <<"a", ".", "e", "p", "s">>,
      <<"a", ".", "p", "s">>, <<"a">>, <<"a", ".">>,
      <<"a", ".", "p", "d", "f", ".", "e", "p", "s">>,
      <<"a", ".", "e", "p", "s", ".", "p", "n", "g">> }

\* process: the branch taken for the prefix.  Code specials start a run of
\* the interpreter; file specials call imgfile with the type of the file
\* fname, which returns early ("skip"), finds no file ("notfound"), emits an
\* image element for a bitmap or SVG file ("bitmap") or runs the EPS/PDF
\* file with the cursor on a new group ("eps")
DispatchAt(outcome, fname) ==
    /\ pc = "dispatch"
    /\ IF handler.prefix \in CodePrefixes
       THEN /\ outcome \in DispatchTags(handler.prefix)
            /\ handler' = [handler EXCEPT !.tag = outcome]
            /\ pc' = "body"
            /\ out' = <<>>
            /\ IF Injects(outcome)
               THEN /\ pattern' = IF ~patternEnabled THEN Null ELSE pattern
                    /\ currentcolor' = actionsColor
                    /\ actionsColor' = currentcolor'
               ELSE UNCHANGED <<pattern, currentcolor, actionsColor>>
            /\ UNCHANGED <<xmlnode, imgEmpty, dviPos, imgXY>>
            /\ Observe("Dispatch", 0)
       ELSE /\ outcome \in {"skip", "notfound", "bitmap", "eps"}
            /\ outcome = "bitmap" =>
                    fileType(handler.prefix, fname) \in {"BITMAP", "SVG"}
            /\ outcome = "eps" =>
                    fileType(handler.prefix, fname) \in {"EPS", "PDF"}
            /\ IF outcome = "eps"
               THEN /\ xmlnode' = ImgNode
                    /\ imgEmpty' = TRUE
                    /\ pc' = "img"
                    /\ out' = <<>>
                    /\ imgXY' = dviPos
                    /\ dviPos' = Origin
                    /\ UNCHANGED handler
               ELSE /\ pc' = "idle"
                    /\ handler' = Idle
                    /\ out' = IF outcome = "bitmap" THEN <<Elem("image", Null)>>
                              ELSE <<>>
                    /\ imgXY' = IF outcome = "skip" THEN imgXY ELSE dviPos
                    /\ dviPos' = IF outcome = "skip" THEN dviPos ELSE imgXY'
                    /\ UNCHANGED <<xmlnode, imgEmpty>>
            /\ UNCHANGED <<pattern, currentcolor, actionsColor, mesh,
                           actionsMatrix>>
            /\ ObserveOnly("Dispatch", 1,
                           [op |-> "imgfile", prefix |-> handler.prefix,
                            fname |-> fname,
                            filetype |-> fileType(handler.prefix, fname)])
    /\ UNCHANGED <<psSection, actionsSet, headerCode, styleVars, path, clipVars,
                   patterns, patternEnabled, nextPat, savenode,
                   COMPUTE_CLIPPATHS_INTERSECTIONS>>

\* process with one file name per outcome of imgfile
Dispatch(outcome) ==
    DispatchAt(outcome, IF outcome = "bitmap" THEN <<"a", ".", "p", "n", "g">>
                        ELSE <<"a", ".", "e", "p", "s">>)

\* process returns after the code of the special has been executed; with
\* updatePos, executeAndSync moves the DVI cursor to the current point p of
\* the interpreter, which querypos reports
ProcessReturnAt(p) ==
    /\ pc = "body"
    /\ pc' = "idle"
    /\ handler' = Idle
    /\ out' = <<>>
    /\ LET after == processAfter(handler.prefix, handler.tag)
       IN  dviPos' = IF actionsSet
                        /\ \E i \in 1..Len(after) : after[i] = "setXY"
                     THEN p ELSE dviPos
    /\ UNCHANGED <<psSection, actionsSet, headerCode, gfxVars, maxID, patterns,
                   nextPat, actionsColor, COMPUTE_CLIPPATHS_INTERSECTIONS,
                   imgEmpty, mesh, actionsMatrix, imgXY>>
    /\ ObserveOnly("ProcessReturn", 0, NoInput)

\* process returns with the current point at the DVI position
ProcessReturn == ProcessReturnAt(dviPos)

\* variant: imgfile leaves the DVI cursor at the origin
ImgDoneAtOrigin ==
    /\ pc = "img"
    /\ xmlnode' = Null
    /\ out' = IF imgEmpty THEN <<>> ELSE <<Elem("g", Null)>>
    /\ pc' = "idle"
    /\ handler' = Idle
    /\ UNCHANGED <<psSection, actionsSet, headerCode, styleVars, colorVars,
                   path, clipVars, patVars, savenode,
                   COMPUTE_CLIPPATHS_INTERSECTIONS, imgEmpty, mesh,
                   actionsMatrix, dviPos, imgXY>>
    /\ ObserveOnly("ImgDone", 0, NoInput)

\* createImageNode/imgfile after the file has been executed: the cursor goes
\* back to the page, a non-empty group is appended to the page, the DVI
\* cursor goes back to the saved position
ImgDone ==
    /\ pc = "img"
    /\ xmlnode' = Null
    /\ out' = IF imgEmpty THEN <<>> ELSE <<Elem("g", Null)>>
    /\ pc' = "idle"
    /\ handler' = Idle
    /\ dviPos' = imgXY
    /\ UNCHANGED <<psSection, actionsSet, headerCode, styleVars, colorVars,
                   path, clipVars, patVars, savenode,
                   COMPUTE_CLIPPATHS_INTERSECTIONS, imgEmpty, mesh,
                   actionsMatrix, imgXY>>
    /\ ObserveOnly("ImgDone", 0, NoInput)

\* variant: the page end returns the handler to the uninitialized section
dviEndPageUninit ==
    /\ pc = "idle"
    /\ IF psSection = "PS_BODY"
       THEN /\ initgraphics
            /\ psSection' = "PS_NONE"
       ELSE UNCHANGED <<gfxVars, psSection>>
    /\ out' = <<>>
    /\ UNCHANGED <<pc, handler, actionsSet, headerCode, maxID, patterns,
                   nextPat, actionsColor, COMPUTE_CLIPPATHS_INTERSECTIONS,
                   imgEmpty>>
    /\ Observe("dviEndPage", IF psSection = "PS_BODY" THEN 1 ELSE 0)

\* PsSpecialHandler::dviEndPage
dviEndPage ==
    /\ pc = "idle"
    /\ IF psSection = "PS_BODY"
       THEN /\ initgraphics
            /\ psSection' = "PS_HEADERS"
       ELSE UNCHANGED <<gfxVars, psSection>>
    /\ out' = <<>>
    /\ UNCHANGED <<pc, handler, actionsSet, headerCode, maxID, patterns,
                   nextPat, actionsColor, COMPUTE_CLIPPATHS_INTERSECTIONS,
                   imgEmpty>>
    /\ Observe("dviEndPage", IF psSection = "PS_BODY" THEN 1 ELSE 0)


\* ------------------------------------------------------------- operator callbacks
\* the clipping stack as one value
ClipState == [stack |-> clipStack, heap |-> heap, maxID |-> maxID]

\* the variables no clipping operator touches
clipFrame == <<lifeVars, styleVars, colorVars, patVars, nodeVars,
               COMPUTE_CLIPPATHS_INTERSECTIONS, imgEmpty>>

\* appends the elements es, in order, each to its sink
Emit(es) ==
    /\ out' = es
    /\ imgEmpty' = (imgEmpty /\ \A i \in 1..Len(es) : es[i].sink # ImgNode)

\* PsSpecialHandler::gsave
gsave ==
    /\ Running
    /\ Len(clipStack) < MaxDepth
    /\ clipStack' = dup(clipStack, GsaveTag)
    /\ out' = <<>>
    /\ UNCHANGED <<heap, maxID, path, clipFrame>>
    /\ Observe("gsave", 0)

\* PsSpecialHandler::grestore
grestore ==
    /\ Running
    /\ clipStack' = pop(clipStack, GsaveTag, FALSE)
    /\ heap' = Release(clipStack', heap)
    /\ out' = <<>>
    /\ UNCHANGED <<maxID, path, clipFrame>>
    /\ Observe("grestore", 0)

\* PsSpecialHandler::grestoreall
grestoreall ==
    /\ Running
    /\ clipStack' = pop(clipStack, GsaveTag, TRUE)
    /\ heap' = Release(clipStack', heap)
    /\ out' = <<>>
    /\ UNCHANGED <<maxID, path, clipFrame>>
    /\ Observe("grestoreall", 0)

\* PsSpecialHandler::save
save(id) ==
    /\ Running
    /\ Len(clipStack) < MaxDepth
    /\ clipStack' = dup(clipStack, id)
    /\ out' = <<>>
    /\ UNCHANGED <<heap, maxID, path, clipFrame>>
    /\ Observe("save", id)

\* PsSpecialHandler::restore
restore(id) ==
    /\ Running
    /\ clipStack' = pop(clipStack, id, FALSE)
    /\ heap' = Release(clipStack', heap)
    /\ out' = <<>>
    /\ UNCHANGED <<maxID, path, clipFrame>>
    /\ Observe("restore", id)

\* PsSpecialHandler::moveto, lineto, curveto, closepath: the path grows by
\* the region r the segment covers
moveto(r) ==
    /\ Running
    /\ path' = path \cup {r}
    /\ out' = <<>>
    /\ UNCHANGED <<clipVars, clipFrame>>
    /\ Observe("moveto", 0)

\* PsSpecialHandler::newpath; byOp: triggered by the PS operator newpath
newpath(byOp) ==
    /\ Running
    /\ clipStack' = IF byOp THEN removePrependedPath(clipStack) ELSE clipStack
    /\ heap' = Release(clipStack', heap)
    /\ path' = {}
    /\ out' = <<>>
    /\ UNCHANGED <<maxID, clipFrame>>
    /\ Observe("newpath", 0)

\* PsSpecialHandler::initclip
initclip ==
    /\ Running
    /\ Len(clipStack) < MaxDepth
    /\ clipStack' = pushEmptyPath(clipStack)
    /\ out' = <<>>
    /\ UNCHANGED <<heap, maxID, path, clipFrame>>
    /\ Observe("initclip", 0)

\* PsSpecialHandler::clippath
clippath ==
    /\ Running
    /\ clipStack' = IF clipStack # <<>> THEN setPrependedPath(clipStack)
                    ELSE clipStack
    /\ out' = <<>>
    /\ UNCHANGED <<heap, maxID, path, clipFrame>>
    /\ Observe("clippath", 0)

\* PathClipper::unite and PathClipper::intersect on the region sets
unite(p, q) == p \cup q
intersect(p, q) == p \cap q

\* variant: the clipPath definition never refers to the previous clip path
clipToNoParent(c, g, evenodd) ==
    IF g = {} \/ ~actionsSet
    THEN [elems |-> <<>>] @@ c
    ELSE LET pp == prependedPath(c.stack)
             p == IF pp # Null THEN unite(c.heap[pp], g) ELSE g
             oldID == topID(c.stack)
             fast == ~COMPUTE_CLIPPATHS_INTERSECTIONS \/ oldID < 1
             newPath == IF fast THEN p
                        ELSE intersect(c.heap[topPath(c.stack)], p)
             r == replace(c, newPath)
             clipElem == [Elem("clipPath", DefsNode) EXCEPT
                              !.id = topID(r.stack),
                              !.evenodd = evenodd,
                              !.geom = newPath]
         IN  [stack |-> r.stack, heap |-> Release(r.stack, r.heap),
              maxID |-> r.maxID,
              elems |-> IF r.changed THEN <<clipElem>> ELSE <<>>]

\* variant: a changed clipping path is not written to the defs
clipToSilent(c, g, evenodd) ==
    IF g = {} \/ ~actionsSet
    THEN [elems |-> <<>>] @@ c
    ELSE LET pp == prependedPath(c.stack)
             p == IF pp # Null THEN unite(c.heap[pp], g) ELSE g
             oldID == topID(c.stack)
             fast == ~COMPUTE_CLIPPATHS_INTERSECTIONS \/ oldID < 1
             newPath == IF fast THEN p
                        ELSE intersect(c.heap[topPath(c.stack)], p)
             r == replace(c, newPath)
         IN  [stack |-> r.stack, heap |-> Release(r.stack, r.heap),
              maxID |-> r.maxID, elems |-> <<>>]

\* variant: the clip path definition never states a clip rule
clipToNoRule(c, g, evenodd) ==
    IF g = {} \/ ~actionsSet
    THEN [elems |-> <<>>] @@ c
    ELSE LET pp == prependedPath(c.stack)
             p == IF pp # Null THEN unite(c.heap[pp], g) ELSE g
             oldID == topID(c.stack)
             fast == ~COMPUTE_CLIPPATHS_INTERSECTIONS \/ oldID < 1
             newPath == IF fast THEN p
                        ELSE intersect(c.heap[topPath(c.stack)], p)
             r == replace(c, newPath)
             clipElem == [Elem("clipPath", DefsNode) EXCEPT
                              !.id = topID(r.stack),
                              !.clip = IF ~COMPUTE_CLIPPATHS_INTERSECTIONS
                                          /\ oldID # 0 THEN oldID ELSE 0,
                              !.geom = newPath]
         IN  [stack |-> r.stack, heap |-> Release(r.stack, r.heap),
              maxID |-> r.maxID,
              elems |-> IF r.changed THEN <<clipElem>> ELSE <<>>]

\* PsSpecialHandler::clip(Path, bool) on the clipping stack c; result
\* [stack, heap, maxID, elems], elems the clipPath definition appended to the
\* defs, if any
clipTo(c, g, evenodd) ==
    IF g = {} \/ ~actionsSet
    THEN [elems |-> <<>>] @@ c
    ELSE LET pp == prependedPath(c.stack)
             p == IF pp # Null THEN unite(c.heap[pp], g) ELSE g
             oldID == topID(c.stack)
             fast == ~COMPUTE_CLIPPATHS_INTERSECTIONS \/ oldID < 1
             newPath == IF fast THEN p
                        ELSE intersect(c.heap[topPath(c.stack)], p)
             r == replace(c, newPath)
             clipElem == [Elem("clipPath", DefsNode) EXCEPT
                              !.id = topID(r.stack),
                              !.clip = IF ~COMPUTE_CLIPPATHS_INTERSECTIONS
                                          /\ oldID # 0 THEN oldID ELSE 0,
                              !.evenodd = evenodd,
                              !.geom = newPath]
         IN  [stack |-> r.stack, heap |-> Release(r.stack, r.heap),
              maxID |-> r.maxID,
              elems |-> IF r.changed THEN <<clipElem>> ELSE <<>>]

\* PsSpecialHandler::clip(vector<double>&, bool)
clip(evenodd) ==
    /\ Running
    /\ LET r == clipTo(ClipState, path, evenodd)
       IN  /\ r.maxID <= MaxClipID
           /\ clipStack' = r.stack
           /\ heap' = r.heap
           /\ maxID' = r.maxID
           /\ Emit(r.elems)
    /\ UNCHANGED <<path, lifeVars, styleVars, colorVars, patVars, nodeVars,
                   COMPUTE_CLIPPATHS_INTERSECTIONS>>
    /\ ObserveCall("clip", IF lastOp = "clip" THEN 1 ELSE 0,
                   [op |-> "clip", evenodd |-> evenodd])


\* _linewidth/2.0
Half(w) == <<w, 2>>

\* the stroke-linecap and stroke-linejoin attributes stroke writes (lines
\* 687-690); both names are chosen by the cap style
CapAttr == IF linecap > 0 THEN (IF linecap = 1 THEN "round" ELSE "square")
           ELSE "absent"
JoinAttr == IF linejoin > 0 THEN (IF linecap = 1 THEN "round" ELSE "bevel")
            ELSE "absent"

\* variant: a dot is drawn for every cap style but butt
strokeDotAnyCap(isDot) ==
    /\ Running
    /\ IF (path = {} /\ prependedPath(clipStack) = Null) \/ ~actionsSet
       THEN /\ out' = <<>>
            /\ UNCHANGED <<path, clipStack, heap, imgEmpty>>
       ELSE LET pp == prependedPath(clipStack)
                g == IF pp # Null THEN heap[pp] \cup path ELSE path
                shape == IF isDot
                         THEN IF linecap >= 1
                              THEN <<[Elem("circle", xmlnode) EXCEPT
                                          !.fill = "color", !.geom = g,
                                          !.r = Half(linewidth)]>>
                              ELSE <<>>
                         ELSE <<[Elem("path", xmlnode) EXCEPT
                                     !.fill = "none", !.geom = g,
                                     !.cap = CapAttr, !.join = JoinAttr]>>
                clipped == shape # <<>> /\ topPath(clipStack) # Null
                           /\ savenode = Null
            IN  /\ Emit(IF clipped
                        THEN <<[shape[1] EXCEPT !.clip = topID(clipStack)]>>
                        ELSE shape)
                /\ clipStack' = IF clipped THEN removePrependedPath(clipStack)
                                ELSE clipStack
                /\ heap' = Release(clipStack', heap)
                /\ path' = {}
    /\ UNCHANGED <<maxID, lifeVars, styleVars, colorVars, patVars, nodeVars,
                   COMPUTE_CLIPPATHS_INTERSECTIONS>>
    /\ Observe("stroke", IF isDot /\ path' # path THEN 1 ELSE 0)

\* PsSpecialHandler::stroke; isDot: the path degenerates to a single point
stroke(isDot) ==
    /\ Running
    /\ IF (path = {} /\ prependedPath(clipStack) = Null) \/ ~actionsSet
       THEN /\ out' = <<>>
            /\ UNCHANGED <<path, clipStack, heap, imgEmpty>>
       ELSE LET pp == prependedPath(clipStack)
                g == IF pp # Null THEN heap[pp] \cup path ELSE path
                shape == IF isDot
                         THEN IF linecap = 1
                              THEN <<[Elem("circle", xmlnode) EXCEPT
                                          !.fill = "color", !.geom = g,
                                          !.r = Half(linewidth)]>>
                              ELSE <<>>
                         ELSE <<[Elem("path", xmlnode) EXCEPT
                                     !.fill = "none", !.geom = g,
                                     !.cap = CapAttr, !.join = JoinAttr]>>
                clipped == shape # <<>> /\ topPath(clipStack) # Null
                           /\ savenode = Null
            IN  /\ Emit(IF clipped
                        THEN <<[shape[1] EXCEPT !.clip = topID(clipStack)]>>
                        ELSE shape)
                /\ clipStack' = IF clipped THEN removePrependedPath(clipStack)
                                ELSE clipStack
                /\ heap' = Release(clipStack', heap)
                /\ path' = {}
    /\ UNCHANGED <<maxID, lifeVars, styleVars, colorVars, patVars, nodeVars,
                   COMPUTE_CLIPPATHS_INTERSECTIONS>>
    /\ Observe("stroke", IF isDot /\ path' # path THEN 1 ELSE 0)

\* variant: fill leaves the current path in place
fillKeepsPath(evenodd) ==
    /\ Running
    /\ IF (path = {} /\ prependedPath(clipStack) = Null) \/ ~actionsSet
       THEN /\ out' = <<>>
            /\ UNCHANGED <<path, clipStack, heap, imgEmpty>>
       ELSE LET pp == prependedPath(clipStack)
                g == IF pp # Null THEN heap[pp] \cup path ELSE path
                clipped == topPath(clipStack) # Null /\ savenode = Null
                e == [Elem("path", xmlnode) EXCEPT
                          !.geom = g,
                          !.fill = IF pattern # Null THEN "pattern"
                                   ELSE IF actionsColor # BLACK \/ savenode # Null
                                   THEN "color" ELSE "absent",
                          !.patref = pattern,
                          !.clip = IF clipped THEN topID(clipStack) ELSE 0,
                          !.evenodd = evenodd]
            IN  /\ Emit(<<e>>)
                /\ clipStack' = IF clipped THEN removePrependedPath(clipStack)
                                ELSE clipStack
                /\ heap' = Release(clipStack', heap)
                /\ path' = path
    /\ UNCHANGED <<maxID, lifeVars, styleVars, colorVars, patVars, nodeVars,
                   COMPUTE_CLIPPATHS_INTERSECTIONS>>
    /\ Observe("fill", 0)

\* PsSpecialHandler::fill
fill(evenodd) ==
    /\ Running
    /\ IF (path = {} /\ prependedPath(clipStack) = Null) \/ ~actionsSet
       THEN /\ out' = <<>>
            /\ UNCHANGED <<path, clipStack, heap, imgEmpty>>
       ELSE LET pp == prependedPath(clipStack)
                g == IF pp # Null THEN heap[pp] \cup path ELSE path
                clipped == topPath(clipStack) # Null /\ savenode = Null
                e == [Elem("path", xmlnode) EXCEPT
                          !.geom = g,
                          !.fill = IF pattern # Null THEN "pattern"
                                   ELSE IF actionsColor # BLACK \/ savenode # Null
                                   THEN "color" ELSE "absent",
                          !.patref = pattern,
                          !.clip = IF clipped THEN topID(clipStack) ELSE 0,
                          !.evenodd = evenodd]
            IN  /\ Emit(<<e>>)
                /\ clipStack' = IF clipped THEN removePrependedPath(clipStack)
                                ELSE clipStack
                /\ heap' = Release(clipStack', heap)
                /\ path' = {}
    /\ UNCHANGED <<maxID, lifeVars, styleVars, colorVars, patVars, nodeVars,
                   COMPUTE_CLIPPATHS_INTERSECTIONS>>
    /\ Observe("fill", 0)

\* PsSpecialHandler::image; written: the interpreter has written the bitmap
\* file and it can be opened.  With a clipping path active the image is
\* wrapped in a group that references it
image(written) ==
    /\ Running
    /\ actionsSet
    /\ IF ~written
       THEN out' = <<>> /\ UNCHANGED imgEmpty
       ELSE Emit(<<IF topPath(clipStack) # Null
                   THEN [Elem("g", xmlnode) EXCEPT !.clip = topID(clipStack)]
                   ELSE Elem("image", xmlnode)>>)
    /\ UNCHANGED <<lifeVars, styleVars, colorVars, path, clipVars, patVars,
                   nodeVars, COMPUTE_CLIPPATHS_INTERSECTIONS>>
    /\ Observe("image", IF written THEN 1 ELSE 0)

\* The parameter vector of shfill, as far as the handler distinguishes:
\* enough: it has at least 9 values; headerCut: it ends inside the
\* bounding-box coordinates (flag set after a background color of 3 or 4
\* components, fewer than 11 or 12 values); bbox: the bounding-box flag, r the
\* region of the box; mesh: what the data after the header decodes to, patch
\* by patch: "ok", "malformed" (ShadingException) or "truncated" (the data
\* ends inside the patch)
PatchKinds == {"ok", "malformed", "truncated"}
Meshes ==
    {m \in UNION {[1..n -> PatchKinds] : n \in 0..MaxPatches} :
        \A i \in 1..Len(m) : m[i] = "truncated" => i = Len(m)}
ShfillParams ==
    {[enough |-> FALSE, headerCut |-> FALSE, bbox |-> FALSE, r |-> 1,
      mesh |-> <<>>],
     [enough |-> TRUE, headerCut |-> TRUE, bbox |-> TRUE, r |-> 1,
      mesh |-> <<>>]}
    \cup {[enough |-> TRUE, headerCut |-> FALSE, bbox |-> TRUE, r |-> r,
           mesh |-> m] : r \in Regions, m \in Meshes}
    \cup {[enough |-> TRUE, headerCut |-> FALSE, bbox |-> FALSE, r |-> 1,
           mesh |-> m] : m \in Meshes}

\* VectorIterator::operator*: reading past the end of the vector throws
\* IteratorException; reading patch i of mesh m gives its error, if any
ReadError(m, i) ==
    IF m[i] = "truncated" THEN "IteratorException"
    ELSE IF m[i] = "malformed" THEN "ShadingException"
    ELSE "none"

RECURSIVE PatchLoop(_, _, _)
\* processSequentialPatchMesh: while (it.valid()) read a patch, then emit
\* its group; an exception leaves the loop.  Result [groups, error]
PatchLoop(m, i, groups) ==
    IF i > Len(m) THEN [groups |-> groups, error |-> "none"]
    ELSE IF ReadError(m, i) # "none"
    THEN [groups |-> groups, error |-> ReadError(m, i)]
    ELSE PatchLoop(m, i + 1, groups + 1)

processSequentialPatchMesh(m) == PatchLoop(m, 1, 0)

\* PsSpecialHandler::shfill.  An exception of the mesh processing is caught;
\* one thrown while the header is read leaves shfill and the running handler
shfill(p) ==
    /\ Running
    /\ IF ~p.enough
       THEN /\ out' = <<>>
            /\ UNCHANGED <<clipVars, imgEmpty, pc, handler>>
            /\ ObserveCall("shfill", 0, [op |-> "shfill", p |-> p,
                                         result |-> "returned"])
       ELSE IF p.headerCut
       THEN /\ out' = <<>>
            /\ pc' = "idle"
            /\ handler' = Idle
            /\ UNCHANGED <<clipVars, imgEmpty>>
            /\ ObserveCall("shfill", 0, [op |-> "shfill", p |-> p,
                                         result |-> "thrown"])
       ELSE LET c == IF p.bbox THEN clipTo(ClipState, {p.r}, FALSE)
                     ELSE [elems |-> <<>>] @@ ClipState
                group == [Elem("g", xmlnode) EXCEPT
                              !.clip = IF topID(c.stack) > 0 THEN topID(c.stack)
                                       ELSE 0]
                done == processSequentialPatchMesh(p.mesh)
                after == IF p.bbox THEN pop(c.stack, GsaveTag, FALSE)
                         ELSE c.stack
            IN  /\ c.maxID <= MaxClipID
                /\ Emit(c.elems \o [i \in 1..done.groups |-> group])
                /\ clipStack' = after
                /\ heap' = Release(after, c.heap)
                /\ maxID' = c.maxID
                /\ UNCHANGED <<pc, handler>>
                /\ ObserveCall("shfill", IF p.bbox THEN 1 ELSE 0,
                               [op |-> "shfill", p |-> p,
                                result |-> "returned"])
    /\ UNCHANGED <<path, psSection, actionsSet, headerCode, styleVars,
                   colorVars, patVars, nodeVars,
                   COMPUTE_CLIPPATHS_INTERSECTIONS>>

\* Color::setGray, setRGB, setCMYK, setHSB on components 0 and 1
Gray(g) == <<g, g, g>>
RGB(r, g, b) == <<r, g, b>>
CMYK(c, m, y, k) == <<(1 - c) * (1 - k), (1 - m) * (1 - k), (1 - y) * (1 - k)>>
HSB(h, s, b) == IF s = 0 THEN <<b, b, b>> ELSE <<b, 0, 0>>

\* variant: a color operator leaves the active pattern alone
setcolorKeepsPattern(op, c) ==
    /\ Running
    /\ currentcolor' = c
    /\ actionsColor' = IF actionsSet THEN c ELSE actionsColor
    /\ out' = <<>>
    /\ UNCHANGED <<lifeVars, styleVars, path, clipVars, patVars, nodeVars,
                   COMPUTE_CLIPPATHS_INTERSECTIONS, imgEmpty>>
    /\ Observe(op, 0)

\* the part the four color operators share
setcolor(op, c) ==
    /\ Running
    /\ pattern' = IF ~patternEnabled THEN Null ELSE pattern
    /\ currentcolor' = c
    /\ actionsColor' = IF actionsSet THEN c ELSE actionsColor
    /\ out' = <<>>
    /\ UNCHANGED <<lifeVars, styleVars, path, clipVars, patterns,
                   patternEnabled, nextPat, nodeVars,
                   COMPUTE_CLIPPATHS_INTERSECTIONS, imgEmpty>>
    /\ Observe(op, 0)

\* PsSpecialHandler::setgray
setgray(g) == setcolor("setgray", Gray(g))

\* PsSpecialHandler::setrgbcolor
setrgbcolor(r, g, b) == setcolor("setrgbcolor", RGB(r, g, b))

\* PsSpecialHandler::setcmykcolor
setcmykcolor(c, m, y, k) == setcolor("setcmykcolor", CMYK(c, m, y, k))

\* PsSpecialHandler::sethsbcolor
sethsbcolor(h, s, b) == setcolor("sethsbcolor", HSB(h, s, b))

\* the parameter vector of makepattern for a tiling pattern: type, id, box,
\* steps, paint type, then the values m of the pattern matrix
PatternParams(id, paint, m) == <<1, id, 0, 0, 1, 1, 1, 1, paint>> \o m

\* makepattern lines 879-881: the matrix of the new pattern
PatternMatrix(p) == lmultiply(create_matrix(p, 9), actionsMatrix)

\* PsSpecialHandler::makepattern; kind 0 ends a definition, kind 1 begins the
\* definition of a tiling pattern (paint 1 colored, 2 uncolored), kind 2 does
\* nothing.  The new pattern object is nextPat + 1; its container node has
\* the same number.  Registering under an id in use destroys the pattern
\* object registered before; if that is the active pattern, _pattern dangles
\* and reads as the old object, as the new one or as no pattern.
makepatternAt(kind, id, paint, m) ==
    /\ Running
    /\ CASE kind = 0 ->
              /\ IF savenode # Null
                 THEN xmlnode' = savenode /\ savenode' = Null
                 ELSE UNCHANGED <<xmlnode, savenode>>
              /\ UNCHANGED <<patterns, nextPat, pattern>>
         [] kind = 1 ->
              /\ actionsSet
              /\ nextPat < MaxPatObjs
              /\ savenode' = xmlnode
              /\ xmlnode' = nextPat + 1
              /\ patterns' = [patterns EXCEPT
                                 ![id] = [obj |-> nextPat + 1, paint |-> paint,
                                          matrix |-> PatternMatrix(
                                              PatternParams(id, paint, m))]]
              /\ nextPat' = nextPat + 1
              /\ IF pattern # Null /\ pattern = patterns[id].obj
                 THEN pattern' \in {pattern, nextPat + 1, Null}
                 ELSE UNCHANGED pattern
         [] OTHER ->
              UNCHANGED <<xmlnode, savenode, patterns, nextPat, pattern>>
    /\ out' = <<>>
    /\ UNCHANGED <<lifeVars, styleVars, colorVars, path, clipVars,
                   patternEnabled, COMPUTE_CLIPPATHS_INTERSECTIONS, imgEmpty>>
    /\ ObserveCall("makepattern", kind, [op |-> "makepattern", m |-> m])

\* makepattern called with a complete pattern matrix, the identity
makepattern(kind, id, paint) ==
    makepatternAt(kind, id, paint, <<1, 0, 0, 1, 0, 0>>)

\* PsSpecialHandler::setmatrix
setmatrix(v) ==
    /\ Running
    /\ actionsMatrix' = IF actionsSet THEN create_matrix(v, 0)
                        ELSE actionsMatrix
    /\ out' = <<>>
    /\ UNCHANGED <<lifeVars, styleVars, colorVars, path, clipVars, patVars,
                   nodeVars, COMPUTE_CLIPPATHS_INTERSECTIONS, imgEmpty, mesh>>
    /\ ObserveOnly("setmatrix", 0, [op |-> "setmatrix", v |-> v])
    /\ UNCHANGED <<dviPos, imgXY>>

\* _patterns.find(id) != _patterns.end(): makepattern has registered a
\* pattern under id
Registered(id) == id \in DOMAIN patterns /\ patterns[id].obj # Null

\* variant: an id that is not registered leaves the active pattern in place
setpatternKeeps(id) ==
    /\ Running
    /\ IF ~Registered(id)
       THEN /\ UNCHANGED pattern
            /\ out' = <<>>
       ELSE /\ actionsSet
            /\ pattern' = patterns[id].obj
            /\ out' = <<[Elem("pattern", DefsNode) EXCEPT
                             !.id = patterns[id].obj]>>
    /\ UNCHANGED <<lifeVars, styleVars, colorVars, path, clipVars, patterns,
                   patternEnabled, nextPat, nodeVars,
                   COMPUTE_CLIPPATHS_INTERSECTIONS, imgEmpty>>
    /\ Observe("setpattern", id)

\* PsSpecialHandler::setpattern; a registered pattern is applied (its
\* definition goes to the defs) and becomes the active pattern
setpattern(id) ==
    /\ Running
    /\ IF ~Registered(id)
       THEN /\ pattern' = Null
            /\ out' = <<>>
       ELSE /\ actionsSet
            /\ pattern' = patterns[id].obj
            /\ out' = <<[Elem("pattern", DefsNode) EXCEPT
                             !.id = patterns[id].obj]>>
    /\ UNCHANGED <<lifeVars, styleVars, colorVars, path, clipVars, patterns,
                   patternEnabled, nextPat, nodeVars,
                   COMPUTE_CLIPPATHS_INTERSECTIONS, imgEmpty>>
    /\ Observe("setpattern", id)

\* scale factor of the dash values; initgraphics sets _sx = _sy = _cos = 1
sx == 1
scale(v) == v * sx

\* PsSpecialHandler::setdash; p: the dash array plus the trailing offset
setdash(p) ==
    /\ Running
    /\ dashpattern' = [i \in 1..(Len(p) - 1) |-> scale(p[i])]
    /\ dashoffset' = scale(p[Len(p)])
    /\ out' = <<>>
    /\ UNCHANGED <<lifeVars, linewidth, linecap, linejoin, miterlimit,
                   fillalpha, strokealpha, blendmode, colorVars, path, clipVars,
                   patVars, nodeVars, COMPUTE_CLIPPATHS_INTERSECTIONS, imgEmpty>>
    /\ Observe("setdash", 0)

\* PsSpecialHandler::setpagedevice
setpagedevice ==
    /\ Running
    /\ linewidth' = DefaultLineWidth
    /\ linecap' = ButtCap
    /\ linejoin' = MiterJoin
    /\ miterlimit' = DefaultMiterLimit
    /\ fillalpha' = <<Opaque, Opaque>>
    /\ strokealpha' = <<Opaque, Opaque>>
    /\ blendmode' = NormalBlend
    /\ pattern' = Null
    /\ currentcolor' = BLACK
    /\ dashoffset' = 0
    /\ dashpattern' = <<>>
    /\ path' = {}
    /\ out' = <<>>
    /\ UNCHANGED <<lifeVars, actionsColor, clipVars, patterns, patternEnabled,
                   nextPat, nodeVars, COMPUTE_CLIPPATHS_INTERSECTIONS, imgEmpty>>
    /\ Observe("setpagedevice", 0)

\* the operators that set one stroke or fill parameter (setlinewidth,
\* setlinecap, setlinejoin, setmiterlimit, set...alpha, setblendmode)
styleFrame == <<lifeVars, colorVars, path, clipVars, patVars, nodeVars,
                COMPUTE_CLIPPATHS_INTERSECTIONS, imgEmpty, dashpattern,
                dashoffset>>
setlinewidth(w) ==
    /\ Running
    /\ linewidth' = w
    /\ out' = <<>>
    /\ UNCHANGED <<styleFrame, linecap, linejoin, miterlimit, fillalpha,
                   strokealpha, blendmode>>
    /\ Observe("setlinewidth", 0)
setlinecap(c) ==
    /\ Running
    /\ linecap' = c
    /\ out' = <<>>
    /\ UNCHANGED <<styleFrame, linewidth, linejoin, miterlimit, fillalpha,
                   strokealpha, blendmode>>
    /\ Observe("setlinecap", 0)
setlinejoin(j) ==
    /\ Running
    /\ linejoin' = j
    /\ out' = <<>>
    /\ UNCHANGED <<styleFrame, linewidth, linecap, miterlimit, fillalpha,
                   strokealpha, blendmode>>
    /\ Observe("setlinejoin", 0)
setmiterlimit(m) ==
    /\ Running
    /\ miterlimit' = m
    /\ out' = <<>>
    /\ UNCHANGED <<styleFrame, linewidth, linecap, linejoin, fillalpha,
                   strokealpha, blendmode>>
    /\ Observe("setmiterlimit", 0)
setfillconstantalpha(a) ==
    /\ Running
    /\ fillalpha' = [fillalpha EXCEPT ![1] = a]
    /\ out' = <<>>
    /\ UNCHANGED <<styleFrame, linewidth, linecap, linejoin, miterlimit,
                   strokealpha, blendmode>>
    /\ Observe("setfillconstantalpha", 0)
setstrokeconstantalpha(a) ==
    /\ Running
    /\ strokealpha' = [strokealpha EXCEPT ![1] = a]
    /\ out' = <<>>
    /\ UNCHANGED <<styleFrame, linewidth, linecap, linejoin, miterlimit,
                   fillalpha, blendmode>>
    /\ Observe("setstrokeconstantalpha", 0)
setblendmode(b) ==
    /\ Running
    /\ blendmode' = b
    /\ out' = <<>>
    /\ UNCHANGED <<styleFrame, linewidth, linecap, linejoin, miterlimit,
                   fillalpha, strokealpha>>
    /\ Observe("setblendmode", 0)


\* ------------------------------------------------------------- specifications
\* the handler calls of the DVI reader and the steps inside them
Handlers ==
    \/ \E prefix \in {"!", "header="} : PreprocessCall(prefix)
    \/ \E found \in BOOLEAN : PreprocessBody(found)
    \/ HeaderFileDone
    \/ InitializeDone
    \/ \E prefix \in {"!", "ps:", "psfile="} : ProcessCall(prefix)
    \/ EnterBodySection
    \/ EnterBodyDone
    \/ \E outcome \in {"code", "skip", "notfound", "bitmap", "eps"} :
          Dispatch(outcome)
    \/ ProcessReturn
    \/ ImgDone
    \/ dviEndPage

\* the operators that act on the clipping stack and the current path
ClipOperators ==
    \/ gsave
    \/ grestore
    \/ grestoreall
    \/ \E id \in SaveIDs : save(id)
    \/ \E id \in SaveIDs : restore(id)
    \/ \E r \in Regions : moveto(r)
    \/ \E byOp \in BOOLEAN : newpath(byOp)
    \/ initclip
    \/ clippath
    \/ \E evenodd \in BOOLEAN : clip(evenodd)
    \/ \E isDot \in BOOLEAN : stroke(isDot)
    \/ \E evenodd \in BOOLEAN : fill(evenodd)
    \/ \E p \in ShfillParams : shfill(p)

\* the operators that set colors and patterns
PatternOperators ==
    \/ \E g \in {0, 1} : setgray(g)
    \/ \E r \in {0, 1} : setrgbcolor(r, 0, 0)
    \/ \E k \in {0, 1} : setcmykcolor(0, 1 - k, 1 - k, k)
    \/ \E b \in {0, 1} : sethsbcolor(0, b, b)
    \/ \E kind \in 0..2, id \in PatIDs, paint \in {1, 2} :
          makepattern(kind, id, paint)
    \/ \E id \in PatIDs : setpattern(id)

\* the operators that set stroke and fill parameters
StyleOperators ==
    \/ \E w \in {1, 2} : setlinewidth(w)
    \/ \E c \in 0..2 : setlinecap(c)
    \/ \E j \in 0..2 : setlinejoin(j)
    \/ \E m \in {4, 10} : setmiterlimit(m)
    \/ \E a \in {0, 1} : setfillconstantalpha(a)
    \/ \E a \in {0, 1} : setstrokeconstantalpha(a)
    \/ \E b \in {0, 1} : setblendmode(b)
    \/ \E p \in {<<0>>, <<2, 1>>} : setdash(p)
    \/ setpagedevice

Next == Handlers \/ ClipOperators \/ PatternOperators \/ StyleOperators
Spec == Init /\ [][Next]_vars

\* save/restore and gsave/grestore scopes around clip path changes, in the
\* code of a body special
NextScope ==
    \/ gsave
    \/ grestore
    \/ grestoreall
    \/ \E id \in SaveIDs : save(id)
    \/ \E id \in SaveIDs : restore(id)
    \/ \E r \in Regions : moveto(r)
    \/ \E evenodd \in BOOLEAN : clip(evenodd)
SpecScope == InitBody /\ [][NextScope]_vars

\* clippath among path construction, clip and paint operators, in the code
\* of a body special
NextPaint ==
    \/ gsave
    \/ grestore
    \/ \E r \in Regions : moveto(r)
    \/ clippath
    \/ clip(FALSE)
    \/ \E isDot \in BOOLEAN : stroke(isDot)
    \/ fill(FALSE)
SpecPaint == InitBody /\ [][NextPaint]_vars

\* pattern definitions and selections among colors, clip and paint
\* operators, in the code of a body special; the id MaxPatID + 1 is never
\* registered
NextFill ==
    \/ \E kind \in 0..1, id \in PatIDs : makepattern(kind, id, 1)
    \/ \E id \in 1..(MaxPatID + 1) : setpattern(id)
    \/ \E g \in 0..1 : setgray(g)
    \/ moveto(1)
    \/ clip(FALSE)
    \/ \E isDot \in BOOLEAN : stroke(isDot)
    \/ \E evenodd \in BOOLEAN : fill(evenodd)
SpecFill == InitBody /\ [][NextFill]_vars

\* line styles and strokes, in the code of a body special
NextStroke ==
    \/ \E w \in {1, 2} : setlinewidth(w)
    \/ \E c \in 0..2 : setlinecap(c)
    \/ \E j \in 0..2 : setlinejoin(j)
    \/ \E r \in Regions : moveto(r)
    \/ clip(FALSE)
    \/ \E isDot \in BOOLEAN : stroke(isDot)
SpecStroke == InitBody /\ [][NextStroke]_vars

\* shading fills among scopes and clip path changes, in the code of a body
\* special
NextShfill ==
    \/ gsave
    \/ grestore
    \/ save(0)
    \/ moveto(1)
    \/ clip(FALSE)
    \/ \E p \in ShfillParams : shfill(p)
SpecShfill == InitBody /\ [][NextShfill]_vars

\* pattern definitions, colors and fills in code specials and included
\* EPS/PDF files
NextPattern ==
    \/ \E prefix \in {"ps:", "psfile="} : ProcessCall(prefix)
    \/ InitializeDone
    \/ EnterBodySection
    \/ EnterBodyDone
    \/ \E outcome \in {"code", "eps"} : Dispatch(outcome)
    \/ ProcessReturn
    \/ ImgDone
    \/ dviEndPage
    \/ setgray(1)
    \/ setrgbcolor(1, 0, 0)
    \/ setcmykcolor(0, 1, 1, 0)
    \/ sethsbcolor(0, 1, 1)
    \/ \E kind \in 0..2, id \in PatIDs, paint \in {1, 2} :
          makepattern(kind, id, paint)
    \/ \E id \in PatIDs : setpattern(id)
    \/ moveto(1)
    \/ \E evenodd \in BOOLEAN : fill(evenodd)
SpecPattern == InitDefault /\ [][NextPattern]_vars

\* the handler calls over the pages of a document, with operators that
\* change each part of the graphics state
NextPage ==
    \/ Handlers
    \/ gsave
    \/ moveto(1)
    \/ \E g \in {0, 1} : setgray(g)
    \/ \E w \in {1, 2} : setlinewidth(w)
    \/ \E kind \in 0..1 : makepattern(kind, 1, 1)
SpecPage == InitDefault /\ [][NextPage]_vars

\* the specials that carry code, the color operator and the page end
NextSync ==
    \/ \E prefix \in CodePrefixes : ProcessCall(prefix)
    \/ InitializeDone
    \/ EnterBodySection
    \/ EnterBodyDone
    \/ \E outcome \in {"code", "[begin]", "[nobreak]", "[end]", "array",
                        "plotfile"} : Dispatch(outcome)
    \/ ProcessReturn
    \/ \E g \in {0, 1} : setgray(g)
    \/ dviEndPage
SpecSync == InitDefault /\ [][NextSync]_vars

\* processLatticeTriangularPatchMesh is called by shfill with the data of
\* a mesh: row width W and n vertices
LatticeBegin(W, n) ==
    /\ Running
    /\ actionsSet
    /\ mesh.phase = "none"
    /\ mesh' = latticeBegin(W, n)
    /\ out' = IF mesh'.phase = "rows"
              THEN <<[Elem("g", xmlnode) EXCEPT !.clip = topID(clipStack)]>>
              ELSE <<>>
    /\ UNCHANGED <<lifeVars, styleVars, colorVars, path, clipVars, patVars,
                   nodeVars, COMPUTE_CLIPPATHS_INTERSECTIONS, imgEmpty,
                   obsVars, actionsMatrix, dviPos, imgXY>>

\* while (it.valid()): one pass
LatticeRowPair ==
    /\ mesh.phase = "rows"
    /\ mesh.pos < mesh.n
    /\ mesh' = rowPair(mesh)
    /\ out' = <<>>
    /\ UNCHANGED <<lifeVars, styleVars, colorVars, path, clipVars, patVars,
                   nodeVars, COMPUTE_CLIPPATHS_INTERSECTIONS, imgEmpty,
                   obsVars, actionsMatrix, dviPos, imgXY>>

\* the loop ends with the data
LatticeReturn ==
    /\ mesh.phase = "rows"
    /\ mesh.pos = mesh.n
    /\ mesh' = [mesh EXCEPT !.phase = "done", !.tris = <<>>]
    /\ out' = <<>>
    /\ UNCHANGED <<lifeVars, styleVars, colorVars, path, clipVars, patVars,
                   nodeVars, COMPUTE_CLIPPATHS_INTERSECTIONS, imgEmpty,
                   obsVars, actionsMatrix, dviPos, imgXY>>

\* one lattice mesh, in the code of a body special
NextLattice ==
    \/ \E W \in 0..MaxWidth, n \in 0..MaxVertices : LatticeBegin(W, n)
    \/ LatticeRowPair
    \/ LatticeReturn
SpecLattice == InitBody /\ [][NextLattice]_vars

\* clip path changes and the operators whose elements reference the
\* clipping path, in the code of a body special
NextClipRefs ==
    \/ gsave
    \/ grestore
    \/ initclip
    \/ \E r \in Regions : moveto(r)
    \/ clip(FALSE)
    \/ stroke(FALSE)
    \/ fill(FALSE)
    \/ \E written \in BOOLEAN : image(written)
    \/ \E p \in {q \in ShfillParams : q.enough /\ ~q.headerCut
                                       /\ q.mesh = <<"ok">>} : shfill(p)
SpecClipRefs == InitBody /\ [][NextClipRefs]_vars

\* gsave and grestore around clip path changes and paint operators, in the
\* code of a body special
NextBracket ==
    \/ gsave
    \/ grestore
    \/ initclip
    \/ clippath
    \/ \E byOp \in BOOLEAN : newpath(byOp)
    \/ \E r \in Regions : moveto(r)
    \/ clip(FALSE)
    \/ stroke(FALSE)
    \/ fill(FALSE)
SpecBracket == InitBody /\ [][NextBracket]_vars

\* file inclusion specials and code specials of a document
NextInclude ==
    \/ \E prefix \in FilePrefixes \cup {"ps:"} : ProcessCall(prefix)
    \/ InitializeDone
    \/ EnterBodySection
    \/ EnterBodyDone
    \/ \E outcome \in {"code", "skip", "notfound", "bitmap", "eps"},
          fname \in FileNames : DispatchAt(outcome, fname)
    \/ \E p \in Positions : ProcessReturnAt(p)
    \/ ImgDone
    \/ \E r \in Regions : moveto(r)
    \/ fill(FALSE)
SpecInclude == InitDefault /\ [][NextInclude]_vars

\* clip path changes in scopes, over the specials and pages of a document
NextIds ==
    \/ ProcessCall("ps:")
    \/ InitializeDone
    \/ EnterBodySection
    \/ EnterBodyDone
    \/ Dispatch("code")
    \/ ProcessReturn
    \/ dviEndPage
    \/ gsave
    \/ grestore
    \/ initclip
    \/ \E r \in Regions : moveto(r)
    \/ clip(FALSE)
SpecIds == Init /\ [][NextIds]_vars

\* matrix vectors of every length up to six, with values that are neither 0
\* nor 1
MatrixVectors == {SubSeq(<<2, 3, 4, 5, 6, 7>>, 1, n) : n \in 0..6}

\* matrices set and pattern matrices given, in the code of a body special
NextMatrix ==
    \/ \E v \in MatrixVectors : setmatrix(v)
    \/ \E kind \in 0..1, m \in MatrixVectors : makepatternAt(kind, 1, 1, m)
SpecMatrix == InitBody /\ [][NextMatrix]_vars

\* ------------------------------------------------------------- properties
\* the geometry the entries of stack s point to, read in heap h
GeomsOf(s, h) ==
    [i \in 1..Len(s) |->
        <<IF s[i].path = Null THEN {} ELSE h[s[i].path],
          IF s[i].prependedPath = Null THEN {} ELSE h[s[i].prependedPath]>>]

\* C1: save(id), then any run of gsave and grestore, then restore(id) leaves
\* the clipping stack as it was before save(id): the same entries in the same
\* order, with the same identifiers, scope tags and geometry.
C1_SaveRestoreRoundTrip ==
    bracket.phase = "closed" =>
        /\ clipStack = bracket.stack
        /\ GeomsOf(clipStack, heap) = GeomsOf(bracket.stack, bracket.heap)

\* a bracket with gsave/grestore inside has been closed over a stack that
\* holds a clip path
C1_Witness ==
    /\ bracket.phase = "closed"
    /\ bracket.inner
    /\ lastOp = "restore"
    /\ bracket.stack # <<>>
    /\ topID(bracket.stack) > 0

\* C2: after any number of gsave+grestore pairs with no save among them the
\* stack has the size and the top identifier it had before the first pair,
\* whatever the stack was (empty, or with a save-origin top).
C2_GsaveGrestorePairs ==
    pairs.phase = "closed" =>
        /\ Len(clipStack) = pairs.size
        /\ topID(clipStack) = pairs.top

\* two pairs have been completed over a save-origin top holding a clip path
C2_Witness ==
    /\ pairs.phase = "closed"
    /\ pairs.n = MaxPairCount
    /\ clipStack # <<>>
    /\ Top(clipStack).saveID >= 0
    /\ topID(clipStack) > 0

\* the pairs have also been completed over the empty stack
C2_WitnessEmpty ==
    /\ pairs.phase = "closed"
    /\ pairs.n = MaxPairCount
    /\ clipStack = <<>>

\* C3: a clip step (replace) changes the top entry only: every entry beneath
\* keeps its identifier and its geometry, so that popping the top entry makes
\* the clip path and identifier of the entry beneath active again.
C3_ReplaceLeavesSibling ==
    (lastOp = "clip" /\ pre.stack # <<>>) =>
        /\ Len(clipStack) = Len(pre.stack)
        /\ Front(clipStack) = Front(pre.stack)
        /\ GeomsOf(Front(clipStack), heap) = GeomsOf(Front(pre.stack), pre.heap)
        /\ LET popped == pop(clipStack, Top(clipStack).saveID, FALSE)
           IN  /\ popped = Front(pre.stack)
               /\ topID(popped) = topID(Front(pre.stack))

\* the top entry shared its path with the entry beneath (it was duplicated)
\* and the clip step gave it a path and an identifier of its own
C3_Witness ==
    /\ lastOp = "clip"
    /\ Len(pre.stack) >= 2
    /\ Top(pre.stack).path # Null
    /\ Top(pre.stack).path = pre.stack[Len(pre.stack) - 1].path
    /\ topID(clipStack) # topID(pre.stack)
    /\ heap[Top(clipStack).path] # heap[clipStack[Len(clipStack) - 1].path]

\* the entries a restore step removed: those above the stack it left
Removed == SubSeq(pre.stack, Len(clipStack) + 1, Len(pre.stack))

C6_ShfillRestoresClip ==
    (lastOp = "shfill" /\ lastArg = 1) =>
        /\ Len(clipStack) = Len(pre.stack)
        /\ topID(clipStack) = topID(pre.stack)
        /\ GeomsOf(clipStack, heap) = GeomsOf(pre.stack, pre.heap)

\* C5: makepattern kind 1 makes the new pattern's container the output
\* cursor, and the makepattern kind 0 that ends the definition makes the
\* cursor what it was when the definition began, the page root included.
C5_CaptureRestoresCursor ==
    [][/\ (lastOp' = "makepattern" /\ lastArg' = 1) => xmlnode' = nextPat'
       /\ (lastOp' = "makepattern" /\ lastArg' = 0 /\ capStack # <<>>) =>
              xmlnode' = Top(capStack)]_vars

\* C7: a color operator that runs while a pattern definition is in progress
\* leaves the active pattern as it is.
C7_ColorInCaptureKeepsPattern ==
    [][(lastOp' \in ColorOps /\ capStack # <<>>) => pattern' = pattern]_vars

\* C8: after a color operator that ran outside a pattern definition no
\* pattern is active until setpattern runs, and a fill in between is painted
\* with a color, not with a reference to a pattern.
C8_ColorClearsPattern ==
    colorLatest # "no" =>
        /\ pattern = Null
        /\ (lastOp = "fill" /\ out # <<>>) =>
              out[1].fill \in {"color", "absent"} /\ out[1].patref = Null

\* a color operator cleared an active pattern and a fill was painted since
C8_Witness ==
    /\ colorLatest = "cleared"
    /\ lastOp = "fill"
    /\ out # <<>>
    /\ out[1].fill = "color"

\* C9: the section changes only from PS_NONE to PS_HEADERS (initialize),
\* from PS_HEADERS to PS_BODY (enterBodySection) and from PS_BODY to
\* PS_HEADERS (dviEndPage); PS_NONE is never entered again.
C9_SectionTransitions ==
    [][psSection' # psSection =>
          /\ psSection' # "PS_NONE"
          /\ \/ /\ psSection = "PS_NONE"
                /\ psSection' = "PS_HEADERS"
                /\ lastOp' = "InitializeDone"
             \/ /\ psSection = "PS_HEADERS"
                /\ psSection' = "PS_BODY"
                /\ lastOp' = "EnterBodySection"
             \/ /\ psSection = "PS_BODY"
                /\ psSection' = "PS_HEADERS"
                /\ lastOp' = "dviEndPage"]_vars

\* a page end has taken the section from PS_BODY back to PS_HEADERS
C9_Witness ==
    /\ lastOp = "dviEndPage"
    /\ lastArg = 1
    /\ psSection = "PS_HEADERS"

\* a later page has entered the body section again
C9_WitnessCycle ==
    /\ lastOp = "EnterBodySection"
    /\ psSection = "PS_BODY"
    /\ headerCode = 0
    /\ nextPat > 0

\* C10: after every dviEndPage the graphics state has its defaults, the
\* clipping stack is empty, the output cursor is the page root and the
\* section is not PS_BODY.
C10_PageEndResets ==
    lastOp = "dviEndPage" =>
        /\ linewidth = DefaultLineWidth
        /\ linecap = ButtCap
        /\ linejoin = MiterJoin
        /\ miterlimit = DefaultMiterLimit
        /\ fillalpha = <<Opaque, Opaque>>
        /\ strokealpha = <<Opaque, Opaque>>
        /\ blendmode = NormalBlend
        /\ pattern = Null
        /\ currentcolor = BLACK
        /\ dashpattern = <<>>
        /\ dashoffset = 0
        /\ path = {}
        /\ clipStack = <<>>
        /\ xmlnode = Null
        /\ psSection # "PS_BODY"

\* C11: right after enterBodySection has taken the section from PS_HEADERS
\* to PS_BODY the graphics state has its defaults, whatever the operators of
\* header files and header code did before.
C11_BodyEntryResets ==
    (lastOp = "EnterBodySection" /\ pc = "hdrcode") =>
        /\ linewidth = DefaultLineWidth
        /\ linecap = ButtCap
        /\ linejoin = MiterJoin
        /\ miterlimit = DefaultMiterLimit
        /\ fillalpha = <<Opaque, Opaque>>
        /\ strokealpha = <<Opaque, Opaque>>
        /\ blendmode = NormalBlend
        /\ pattern = Null
        /\ currentcolor = BLACK
        /\ dashpattern = <<>>

\* the groups of shading patches among the elements of the last step
PatchGroups == SelectSeq(out, LAMBDA e : e.tag = "g")

\* the position of the first patch of mesh m that cannot be decoded
FirstFailure(m) ==
    CHOOSE i \in 1..Len(m) :
        m[i] # "ok" /\ \A j \in 1..(i - 1) : m[j] = "ok"

\* C12: an shfill call whose vector has at least 9 values and is truncated
\* or malformed somewhere returns normally, keeps the groups of the complete
\* patches before the failure in the output and processes no later patch.
C12_ShfillContainsErrors ==
    (/\ lastOp = "shfill"
     /\ shin.p.enough
     /\ (shin.p.headerCut \/ \E i \in 1..Len(shin.p.mesh) :
                                 shin.p.mesh[i] # "ok")) =>
        /\ shin.result = "returned"
        /\ Len(PatchGroups) =
               IF shin.p.headerCut THEN 0
               ELSE FirstFailure(shin.p.mesh) - 1

\* the part of C12 about errors met while the patches are decoded
C12_MeshErrorsCaught ==
    (/\ lastOp = "shfill"
     /\ shin.p.enough
     /\ ~shin.p.headerCut
     /\ \E i \in 1..Len(shin.p.mesh) : shin.p.mesh[i] # "ok") =>
        /\ shin.result = "returned"
        /\ Len(PatchGroups) = FirstFailure(shin.p.mesh) - 1

\* the clipPath definitions among the elements of the last step
ClipDefs == SelectSeq(out, LAMBDA e : e.tag = "clipPath")

ClipArg ==
    LET pp == prependedPath(clipStack)
        p == IF pp # Null THEN unite(heap[pp], path) ELSE path
    IN  IF ~COMPUTE_CLIPPATHS_INTERSECTIONS \/ topID(clipStack) < 1 THEN p
        ELSE intersect(heap[topPath(clipStack)], p)

\* C14: the replace of a clip step has one of three outcomes.  On the empty
\* stack it pushes one gsave-tagged entry that holds the path under a fresh
\* id; on a top holding an equal path it changes nothing; otherwise the top
\* entry gets a newly owned copy of the path and a fresh id while the stack
\* size, the top's scope tag and the entries beneath stay as they were.
C14_ReplaceOutcomes ==
    [][(lastOp' = "clip" /\ path # {}) =>
          IF clipStack = <<>>
          THEN /\ Len(clipStack') = 1
               /\ heap'[topPath(clipStack')] = ClipArg
               /\ Top(clipStack').saveID = GsaveTag
               /\ Top(clipStack').pathID = maxID + 1
               /\ maxID' = maxID + 1
               /\ Len(out') = 1
          ELSE IF topPath(clipStack) # Null /\ heap[topPath(clipStack)] = ClipArg
          THEN /\ clipStack' = clipStack
               /\ heap' = heap
               /\ maxID' = maxID
               /\ out' = <<>>
          ELSE /\ Len(clipStack') = Len(clipStack)
               /\ Front(clipStack') = Front(clipStack)
               /\ Top(clipStack').saveID = Top(clipStack).saveID
               /\ Top(clipStack').pathID = maxID + 1
               /\ maxID' = maxID + 1
               /\ heap'[topPath(clipStack')] = ClipArg
               /\ \A i \in 1..(Len(clipStack) - 1) :
                      /\ clipStack'[i].path # topPath(clipStack')
                      /\ clipStack[i].path # Null =>
                             heap'[clipStack[i].path] = heap[clipStack[i].path]
               /\ Len(out') = 1]_vars

\* a clip step has replaced the path of a save-origin top entry that lies
\* over another entry
C14_Witness ==
    /\ lastOp = "clip"
    /\ Len(clipStack) = 2 /\ Len(pre.stack) = 2
    /\ Top(clipStack).saveID # GsaveTag
    /\ topPath(pre.stack) # Null
    /\ topID(clipStack) # topID(pre.stack)
    /\ Len(out) = 1

\* a clip step has pushed the first entry onto the empty stack
C14_WitnessEmpty ==
    lastOp = "clip" /\ pre.stack = <<>> /\ Len(clipStack) = 1 /\ Len(out) = 1

\* a clip step has found the top path equal and left everything as it was
C14_WitnessEqual ==
    /\ lastOp = "clip" /\ lastArg = 0 /\ path # {}
    /\ pre.stack # <<>> /\ clipStack = pre.stack /\ out = <<>>

\* C15: grestore, pop(-1, false), removes exactly the top entry when that
\* entry was pushed by gsave and leaves the stack as it is when the top entry
\* was pushed by save or the stack is empty.
C15_GrestorePopsOneGsave ==
    lastOp = "grestore" =>
        /\ clipStack =
               IF pre.stack # <<>> /\ Top(pre.stack).saveID < 0
               THEN Front(pre.stack) ELSE pre.stack
        /\ GeomsOf(clipStack, heap) = GeomsOf(clipStack, pre.heap)

\* grestore has removed one of two gsave-origin entries on top of the stack
C15_Witness ==
    /\ lastOp = "grestore"
    /\ Len(pre.stack) >= 2
    /\ Top(pre.stack).saveID < 0
    /\ Top(Front(pre.stack)).saveID < 0
    /\ topPath(pre.stack) # Null
    /\ Len(clipStack) = Len(pre.stack) - 1

\* grestore has left a save-origin top entry on the stack
C15_WitnessSave ==
    /\ lastOp = "grestore"
    /\ pre.stack # <<>> /\ Top(pre.stack).saveID >= 0
    /\ clipStack = pre.stack

\* the index of the topmost save-origin entry of stack s, 0 if there is none
TopmostSave(s) ==
    LET saves == {i \in 1..Len(s) : s[i].saveID >= 0}
    IN  IF saves = {} THEN 0
        ELSE CHOOSE i \in saves : \A j \in saves : j <= i

\* C16: after grestoreall, pop(-1, true), the stack is empty or its top entry
\* was pushed by save, and the entries from the topmost save-origin entry
\* downward are what they were before the call.
C16_GrestoreallStopsAtSave ==
    lastOp = "grestoreall" =>
        /\ clipStack = <<>> \/ Top(clipStack).saveID >= 0
        /\ clipStack = SubSeq(pre.stack, 1, TopmostSave(pre.stack))
        /\ GeomsOf(clipStack, heap) = GeomsOf(clipStack, pre.heap)

\* grestoreall has removed two gsave-origin entries that lay over a
\* save-origin entry with a clip path
C16_Witness ==
    /\ lastOp = "grestoreall"
    /\ Len(pre.stack) = 3 /\ Len(clipStack) = 1
    /\ Top(clipStack).saveID >= 0
    /\ topPath(clipStack) # Null

\* grestoreall has emptied a stack of gsave-origin entries
C16_WitnessEmpty ==
    lastOp = "grestoreall" /\ Len(pre.stack) >= 2 /\ clipStack = <<>>

\* C17: the path that clippath prepends is merged into the next paint or
\* clip operation only: once a stroke or fill that draws, or a clip of a
\* non-empty path, has run, no prepended path is pending on the top entry.
C17_PrependedPathUsedOnce ==
    [][(/\ prependedPath(clipStack) # Null
        /\ \/ lastOp' \in {"stroke", "fill"} /\ out' # <<>>
           \/ lastOp' = "clip" /\ path # {}) =>
           prependedPath(clipStack') = Null]_vars

\* C17, as the code has it: a stroke or fill that draws outside a pattern
\* definition removes the pending prepended path from the top entry; a clip
\* merges it into the new clip path and leaves it pending.
C17_PrependedPathUntilPaint ==
    [][prependedPath(clipStack) # Null =>
          /\ (lastOp' \in {"stroke", "fill"} /\ out' # <<>> /\ savenode = Null)
                 => prependedPath(clipStack') = Null
          /\ lastOp' = "clip" =>
                 /\ prependedPath(clipStack') = prependedPath(clipStack)
                 /\ heap'[prependedPath(clipStack')] =
                        heap[prependedPath(clipStack)]]_vars

\* a clip has replaced the top path while the prepended path, the previous
\* clip path, is still pending
C17_Witness ==
    /\ lastOp = "clip" /\ out # <<>>
    /\ prependedPath(clipStack) # Null
    /\ prependedPath(clipStack) # topPath(clipStack)

\* a fill has drawn the prepended path together with the current path and
\* removed it from the top entry
C17_WitnessFill ==
    /\ lastOp = "fill" /\ out # <<>>
    /\ out[1].clip # 0 /\ out[1].geom = Regions
    /\ prependedPath(clipStack) = Null

\* C18: while preprocess runs, no output element is emitted and the current
\* path and the clipping stack stay as they are, and a preprocess called in
\* section PS_BODY leaves the whole state of the handler as it is.
C18_PreprocessFrame ==
    [][(handler.name = "preprocess" \/ handler'.name = "preprocess") =>
          /\ out' = <<>>
          /\ path' = path
          /\ clipStack' = clipStack
          /\ psSection = "PS_BODY" =>
                 UNCHANGED <<psSection, actionsSet, headerCode, gfxVars, maxID,
                             patterns, nextPat, actionsColor>>]_vars

\* the parts of C18 about preprocess itself: it changes the header code only
\* in section PS_HEADERS, and nothing of the handler in section PS_BODY
C18_PreprocessInBody ==
    [][(handler.name = "preprocess" \/ handler'.name = "preprocess") =>
          /\ headerCode' # headerCode =>
                 psSection = "PS_HEADERS" /\ handler.prefix = "!"
          /\ psSection = "PS_BODY" =>
                 UNCHANGED <<psSection, actionsSet, headerCode, gfxVars, maxID,
                             patterns, nextPat, actionsColor>>]_vars

\* C19 as a whole: while an EPS/PDF file is included every element a callback emits
\* goes into the group of the inclusion; when the inclusion ends the output
\* cursor is what it was before the inclusion began, and a group that stayed
\* empty is not appended to the page.
C19_InclusionGroup ==
    [][/\ (pc = "img" /\ pc' = "img") =>
              \A i \in 1..Len(out') : out'[i].sink = ImgNode
       /\ lastOp' = "ImgDone" =>
              /\ xmlnode' = imgSaved
              /\ imgEmpty => out' = <<>>]_vars

\* the parts of C19 that hold: at its end the inclusion puts the cursor on
\* the page and appends its group exactly when an element went into it
C19_InclusionEnds ==
    [][lastOp' = "ImgDone" =>
          /\ xmlnode' = Null
          /\ out' = IF imgEmpty THEN <<>> ELSE <<Elem("g", Null)>>]_vars

\* C19, the end of the inclusion: when the inclusion of an EPS/PDF file ends
\* the output cursor is what it was when the inclusion began.
C19_CursorRestored ==
    [][lastOp' = "ImgDone" => xmlnode' = imgSaved]_vars

\* the new path of a clip step starting in the current state: the current
\* path, united with the prepended path if one is pending
ClipNewPath ==
    IF prependedPath(clipStack) # Null
    THEN unite(heap[prependedPath(clipStack)], path) ELSE path

\* C20: a clip that changes the active clip appends exactly one clipPath
\* definition, to the defs, under the new top identifier.  When intersections
\* are not computed the definition refers to the previous top identifier
\* exactly when that identifier is not 0; when they are computed it refers to
\* no parent and, a previous clip path existing, its geometry is the
\* intersection of the previous clip path with the new path.
C20_ClipDefinition ==
    [][(lastOp' = "clip" /\ topID(clipStack') # topID(clipStack)) =>
          /\ Len(out') = 1
          /\ out'[1].tag = "clipPath"
          /\ out'[1].sink = DefsNode
          /\ out'[1].id = topID(clipStack')
          /\ IF ~COMPUTE_CLIPPATHS_INTERSECTIONS
             THEN out'[1].clip = topID(clipStack)
             ELSE /\ out'[1].clip = 0
                  /\ topPath(clipStack) # Null =>
                         out'[1].geom =
                             intersect(heap[topPath(clipStack)], ClipNewPath)]_vars

\* without intersections, a clip has appended a definition that refers to
\* the previous clip path
C20_Witness ==
    /\ lastOp = "clip"
    /\ ~COMPUTE_CLIPPATHS_INTERSECTIONS
    /\ Len(out) = 1
    /\ out[1].clip = topID(pre.stack) /\ out[1].clip # 0
    /\ out[1].id = topID(clipStack)

\* with intersections, a clip has appended a definition whose geometry is a
\* proper part of the path it was given
C20_WitnessIntersected ==
    /\ lastOp = "clip"
    /\ COMPUTE_CLIPPATHS_INTERSECTIONS
    /\ Len(out) = 1
    /\ topPath(pre.stack) # Null
    /\ out[1].clip = 0
    /\ out[1].geom # path

\* C21: setpattern with an id that is not registered makes 'none' the active
\* pattern, emits nothing and leaves the registry as it is; setpattern with a
\* registered id makes the pattern registered under it the active pattern,
\* which the next fill refers to.
C21_SetpatternLookup ==
    [][/\ lastOp' = "setpattern" =>
              /\ patterns' = patterns
              /\ IF Registered(lastArg')
                 THEN pattern' = patterns[lastArg'].obj
                 ELSE pattern' = Null /\ out' = <<>>
       /\ (lastOp = "setpattern" /\ lastOp' = "fill" /\ out' # <<>>) =>
              out'[1].patref = pattern]_vars

\* setpattern with an id that is not registered has run while other
\* patterns are registered
C21_Witness ==
    /\ lastOp = "setpattern"
    /\ ~Registered(lastArg)
    /\ \E id \in PatIDs : Registered(id)
    /\ pattern = Null

\* a fill refers to the pattern that setpattern made active
C21_WitnessFill ==
    /\ lastOp = "fill" /\ out # <<>>
    /\ out[1].patref # Null /\ out[1].patref = pattern

\* C22: for every line width and join style, the stroke of a path that is a
\* single point emits one circle of radius linewidth/2 when the cap style is
\* round and no element when it is butt or square.
C22_DotStroke ==
    (lastOp = "stroke" /\ lastArg = 1) =>
        IF linecap = 1
        THEN /\ Len(out) = 1
             /\ out[1].tag = "circle"
             /\ out[1].r = <<linewidth, 2>>
             /\ out[1].sink = xmlnode
        ELSE out = <<>>

\* a dot has been stroked with round caps, a line width and a join style
\* that are not the defaults
C22_Witness ==
    /\ lastOp = "stroke" /\ lastArg = 1
    /\ linecap = 1 /\ linewidth # DefaultLineWidth /\ linejoin # MiterJoin
    /\ Len(out) = 1

\* a dot has been stroked with square caps: nothing was emitted
C22_WitnessSquare ==
    lastOp = "stroke" /\ lastArg = 1 /\ linecap = 2 /\ out = <<>>

\* C25: a stroked path element carries stroke-linejoin exactly when the join
\* style is not the default, naming the join style (round for 1, bevel for
\* 2) whatever the cap style is, and stroke-linecap exactly when the cap
\* style is not the default, naming the cap style (round for 1, square for 2).
C25_JoinAndCapAttributes ==
    (lastOp = "stroke" /\ out # <<>> /\ out[1].tag = "path") =>
        /\ out[1].join = (IF linejoin = 0 THEN "absent"
                          ELSE IF linejoin = 1 THEN "round" ELSE "bevel")
        /\ out[1].cap = (IF linecap = 0 THEN "absent"
                         ELSE IF linecap = 1 THEN "round" ELSE "square")

\* the parts of C25 that hold: the attributes appear exactly for non-default
\* styles, and stroke-linecap names the cap style
C25_CapAttribute ==
    (lastOp = "stroke" /\ out # <<>> /\ out[1].tag = "path") =>
        /\ (out[1].join = "absent") <=> (linejoin = 0)
        /\ out[1].cap = (IF linecap = 0 THEN "absent"
                         ELSE IF linecap = 1 THEN "round" ELSE "square")

\* command c is among the commands cs
Has(cs, c) == \E i \in 1..Len(cs) : cs[i] = c

\* C23: the code of '"' and pst: runs after a move to the DVI position,
\* between @beginspecial and @endspecial, and the PS position is not pulled
\* back; the code of ps:: runs unwrapped, a move to the DVI position precedes
\* it exactly for the tags [begin] and [nobreak], and the PS position is always
\* pulled back into the DVI cursor after it.
C23_ProcessWrapping ==
    [][/\ (lastOp' = "Dispatch" /\ handler.prefix \in {"\"", "pst:"}) =>
              /\ Len(cmds') >= 2
              /\ SubSeq(cmds', 1, 2) = <<"moveToDVIPos", "@beginspecial">>
              /\ ~Has(cmds', "querypos")
       /\ (lastOp' = "ProcessReturn" /\ handler.prefix \in {"\"", "pst:"}) =>
              cmds' = <<"@endspecial">>
       /\ (lastOp' = "Dispatch" /\ handler.prefix = "ps::") =>
              /\ ~Has(cmds', "@beginspecial")
              /\ Has(cmds', "moveToDVIPos")
                     <=> handler'.tag \in {"[begin]", "[nobreak]"}
       /\ (lastOp' = "ProcessReturn" /\ handler.prefix = "ps::") =>
              cmds' = <<"querypos", "setXY">>]_vars

\* a ps:: special tagged [nobreak] has moved to the DVI position
C23_Witness ==
    /\ lastOp = "Dispatch"
    /\ handler.prefix = "ps::"
    /\ handler.tag = "[nobreak]"
    /\ Has(cmds, "moveToDVIPos")

\* a ps:: special holding a bare array has run its code without a move
C23_WitnessArray ==
    /\ lastOp = "Dispatch"
    /\ handler.prefix = "ps::"
    /\ handler.tag = "array"
    /\ ~Has(cmds, "moveToDVIPos")

\* C29: executeAndSync puts setrgbcolor ahead of the code exactly when the
\* color of the actions differs from the color of the handler, and once the
\* operator has run the two colors are equal.
C29_ColorInjection ==
    [][(/\ lastOp' = "Dispatch"
        /\ handler.prefix \in CodePrefixes
        /\ handler'.tag # "plotfile") =>
           /\ Has(cmds', "setrgbcolor") <=> actionsColor # currentcolor
           /\ currentcolor' = actionsColor'
           /\ actionsColor' = actionsColor]_vars

\* the color of the handler was reset at the page end and has been set to the
\* color of the actions ahead of the code of the next special
C29_Witness ==
    /\ lastOp = "Dispatch"
    /\ Has(cmds, "setrgbcolor")
    /\ currentcolor # BLACK
    /\ currentcolor = actionsColor

\* C24: a clip that changes the clipping path emits one clip path definition;
\* it carries the clip rule evenodd when clip was called with evenodd true and
\* no clip rule when it was called with evenodd false.
C24_ClipRule ==
    (lastOp = "clip" /\ out # <<>>) =>
        /\ Len(out) = 1
        /\ out[1].tag = "clipPath"
        /\ out[1].sink = DefsNode
        /\ out[1].evenodd = shin.evenodd

\* an even-odd clip has emitted a definition
C24_Witness ==
    /\ lastOp = "clip"
    /\ out # <<>>
    /\ shin.evenodd
    /\ out[1].evenodd

\* a nonzero clip has emitted a definition
C24_WitnessNonzero ==
    /\ lastOp = "clip"
    /\ out # <<>>
    /\ ~shin.evenodd
    /\ ~out[1].evenodd

\* C26: an element emitted by stroke or fill carries a clip-path reference,
\* naming the id of the top of the clipping stack, exactly when a clipping
\* path is active and no pattern definition is in progress; an element
\* emitted between makepattern of kind 1 and its makepattern of kind 0 never
\* carries one, whatever the cursor was when the definition began.
C26_ClipReference ==
    (lastOp \in {"stroke", "fill"} /\ out # <<>>) =>
        /\ out[1].clip # 0 <=> (topPath(clipStack) # Null /\ capStack = <<>>)
        /\ out[1].clip # 0 => out[1].clip = topID(clipStack)

\* the same for the definitions begun while the cursor was not at the page
\* root: _savenode is set and no reference is written
C26_ClipReferenceSaved ==
    (lastOp \in {"stroke", "fill"} /\ out # <<>>) =>
        /\ out[1].clip # 0 <=> (topPath(clipStack) # Null /\ savenode = Null)
        /\ out[1].clip # 0 => out[1].clip = topID(clipStack)

\* C27: a fill names its paint in this order: an active pattern is referenced
\* and no color is stated; without one the color is stated exactly when it is
\* not black or a pattern definition is in progress, black included, also for
\* a definition begun at the page root.
C27_FillSource ==
    (lastOp = "fill" /\ out # <<>>) =>
        /\ out[1].fill = IF pattern # Null THEN "pattern"
                         ELSE IF actionsColor # BLACK \/ capStack # <<>>
                         THEN "color" ELSE "absent"
        /\ pattern # Null => out[1].patref = pattern

\* the pattern has priority over the color, in and out of a definition
C27_PatternFirst ==
    (lastOp = "fill" /\ out # <<>> /\ pattern # Null) =>
        /\ out[1].fill = "pattern"
        /\ out[1].patref = pattern

\* C28: after every stroke and every fill the current path is empty; a stroke
\* or fill that finds the path empty and no prepended path pending emits no
\* element and changes nothing else.
C28_PaintClearsPath ==
    [][lastOp' \in {"stroke", "fill"} =>
          /\ path' = {}
          /\ (path = {} /\ prependedPath(clipStack) = Null) =>
                 /\ out' = <<>>
                 /\ UNCHANGED <<lifeVars, styleVars, colorVars, clipVars,
                                patVars, nodeVars, imgEmpty,
                                COMPUTE_CLIPPATHS_INTERSECTIONS>>]_vars

\* a fill has drawn a path and left the current path empty
C28_Witness ==
    /\ lastOp = "fill"
    /\ out # <<>>
    /\ out[1].geom # {}
    /\ path = {}

\* a stroke under an active clipping path found nothing to draw
C28_WitnessNothing ==
    /\ lastOp = "stroke"
    /\ lastArg = 0
    /\ out = <<>>
    /\ topPath(clipStack) # Null
    /\ prependedPath(clipStack) = Null

\* C30: the lattice processor does nothing for a row width below 2; for a
\* complete mesh of R rows of width W >= 2 it approximates 2*(W-1)*(R-1)
\* triangles, two for each quad of two adjacent rows, (v1,v2,v3) and
\* (v2,v3,v4) with v1, v2 in the upper and v3, v4 in the lower row; the lower
\* row of a pair is the upper row of the next pair.
C30_LatticeTriangles ==
    LET v(r, i) == (r - 1) * mesh.W + i
        k == mesh.pos \div mesh.W - 1
    IN  /\ (mesh.phase = "done" /\ mesh.W < 2) =>
               /\ mesh.count = 0
               /\ mesh.pos = 0
               /\ out = <<>>
        /\ \A R \in 1..MaxVertices :
               (mesh.phase = "done" /\ mesh.W >= 2 /\ mesh.n = R * mesh.W) =>
                   mesh.count = 2 * (mesh.W - 1) * (R - 1)
        /\ (mesh.phase = "rows" /\ mesh.pos > mesh.W) =>
               /\ Len(mesh.tris) = 2 * (mesh.W - 1)
               /\ \A i \in 1..(mesh.W - 1) :
                      /\ mesh.tris[2 * i - 1]
                             = <<v(k, i), v(k, i + 1), v(k + 1, i)>>
                      /\ mesh.tris[2 * i]
                             = <<v(k, i + 1), v(k + 1, i), v(k + 1, i + 1)>>

\* a complete mesh of three rows of width three has been processed
C30_Witness ==
    /\ mesh.phase = "done"
    /\ mesh.W = 3
    /\ mesh.n = 9
    /\ mesh.count = 8

\* a mesh of row width 1 has been skipped
C30_WitnessNarrow ==
    /\ mesh.phase = "done"
    /\ mesh.W = 1
    /\ mesh.n > 0

\* the six values of a PostScript matrix [a b c d e f] of which only the
\* first Len(m) are given, the others taken from the identity matrix
Completed(m) ==
    [k \in 1..6 |-> IF k <= Len(m) THEN m[k]
                    ELSE IF k \in {1, 4} THEN 1 ELSE 0]

\* [a b c d e f] in the order (a, c, e, b, d, f)
Reordered(c) == <<c[1], c[3], c[5], c[2], c[4], c[6]>>

\* C31: create_matrix completes a vector of fewer than six matrix values
\* with the values of the identity matrix (1 for a and d, 0 for b, c, e, f)
\* before it reorders them: setmatrix sets, and makepattern registers, the
\* identity-completed matrix.
C31_IdentityCompletion ==
    /\ lastOp = "setmatrix" => actionsMatrix = Reordered(Completed(shin.v))
    /\ (lastOp = "makepattern" /\ lastArg = 1) =>
           patterns[1].matrix
               = lmultiply(Reordered(Completed(shin.m)), actionsMatrix)

\* a complete vector is reordered as it is
C31_CompleteVector ==
    (lastOp = "setmatrix" /\ Len(shin.v) = 6) =>
        actionsMatrix = Reordered(shin.v)

\* what the code does with a short vector: the missing values are 0
C31_ZeroCompletion ==
    lastOp = "setmatrix" =>
        actionsMatrix = Reordered(resize(shin.v, 6))

\* the Path objects the entries of stack s point to as clip path
PathsOf(s) == {s[i].path : i \in 1..Len(s)} \ {Null}

\* C32: every entry of the clipping stack has path identifier 0 exactly when
\* it holds no clip path, every identifier on the stack is at most the
\* identifier counter, the counter never decreases, page ends included, and
\* an entry that gets a new clip path gets an identifier above every
\* identifier handed out before.
C32_PathIdentifiers ==
    /\ [](\A i \in 1..Len(clipStack) :
              /\ clipStack[i].pathID = 0 <=> clipStack[i].path = Null
              /\ clipStack[i].pathID <= maxID
              /\ clipStack[i].pathID >= 0)
    /\ [][/\ maxID' >= maxID
          /\ \A i \in 1..Len(clipStack') :
                 (clipStack'[i].path \notin PathsOf(clipStack) \cup {Null}) =>
                     /\ clipStack'[i].pathID > maxID
                     /\ clipStack'[i].pathID = maxID']_vars

\* a second clip path has been given the identifier 2
C32_Witness ==
    /\ lastOp = "clip"
    /\ out # <<>>
    /\ topID(clipStack) = 2
    /\ Len(clipStack) = 1
    /\ maxID = 2

\* a page end has cleared the stack and kept the counter
C32_WitnessPageEnd ==
    /\ lastOp = "dviEndPage"
    /\ lastArg = 1
    /\ clipStack = <<>>
    /\ maxID = 2

\* the clipPath definitions among the first n of the elements es
DefinedUpTo(es, n) == DefinedBy(SubSeq(es, 1, n))

\* C33: every clip identifier an emitted element references (a stroked or
\* filled path, the group of an image, the group of a shading, a clipPath
\* definition as its parent) is the identifier of a clipPath definition
\* emitted before that element.
C33_ReferencesDefined ==
    [][\A i \in 1..Len(out') :
           out'[i].clip # 0 =>
               out'[i].clip \in definedIDs \cup DefinedUpTo(out', i - 1)]_vars

\* a stroked path references a clip path whose definition names another
\* clip path as its parent
C33_Witness ==
    /\ lastOp = "stroke"
    /\ out # <<>>
    /\ out[1].clip = 2
    /\ definedIDs = {1, 2}

\* the group of an image references the clip path
C33_WitnessImage ==
    /\ lastOp = "image"
    /\ out # <<>>
    /\ out[1].tag = "g"
    /\ out[1].clip \in definedIDs

\* a shading with a bounding box defines a clip path and references it in
\* the same call
C33_WitnessShading ==
    /\ lastOp = "shfill"
    /\ Len(out) = 2
    /\ out[1].tag = "clipPath"
    /\ out[2].clip = out[1].id

\* C34: the active pattern is none or the pattern object registered under
\* its id; a makepattern that registers a new object under the id of the
\* active pattern does not leave the active pattern pointing at the object
\* it replaced.
C34_ActivePatternRegistered ==
    pattern = Null \/ \E id \in DOMAIN patterns : patterns[id].obj = pattern

\* the same for the steps that register nothing: they keep the active
\* pattern registered
C34_OtherStepsKeepRegistered ==
    [][(C34_ActivePatternRegistered /\ patterns' = patterns)
           => C34_ActivePatternRegistered']_vars

\* the clip path of the top entry of the clipping stack
TopGeom ==
    IF topPath(clipStack) = Null THEN {} ELSE heap[topPath(clipStack)]

\* C35: gsave, then only clip, initclip, clippath, newpath, stroke and fill
\* calls, then grestore leaves the clipping stack as it was before the
\* gsave: the same size, the same top clip path and identifier.
C35_BracketRestoresStack ==
    scope.phase = "closed" =>
        /\ Len(clipStack) = scope.size
        /\ topID(clipStack) = scope.top
        /\ TopGeom = scope.geom

\* the same for the brackets without initclip
C35_BracketWithoutInitclip ==
    (scope.phase = "closed" /\ ~scope.reset) =>
        /\ Len(clipStack) = scope.size
        /\ topID(clipStack) = scope.top
        /\ TopGeom = scope.geom

\* with initclip in the bracket the grestore takes initclip's entry: the
\* stack is left larger than before the gsave
C35_BracketWithInitclip ==
    (scope.phase = "closed" /\ scope.reset) =>
        Len(clipStack) > scope.size

\* a clip path set in the bracket before initclip is the top clip path
\* after the grestore
C35_ClipLeaves ==
    /\ scope.phase = "closed" /\ scope.reset
    /\ scope.top = 0
    /\ topID(clipStack) = 1

\* the file type the extension of a file name stands for
ByExtension(fname) ==
    LET ext == filename_suffix(fname)
    IN  IF ext \in {<<"p", "d", "f">>} THEN "PDF"
        ELSE IF ext \in {<<"s", "v", "g">>} THEN "SVG"
        ELSE IF ext \in {<<"j", "p", "g">>, <<"j", "p", "e", "g">>,
                         <<"p", "n", "g">>}
        THEN "BITMAP"
        ELSE "EPS"

Included == lastOp = "Dispatch" /\ lastArg = 1 /\ shin.op = "imgfile"

\* C36: process hands the file of a pdffile= special to imgfile as a PDF
\* file whatever its extension is, and the file of a psfile= or PSfile=
\* special as PDF for the extension pdf, SVG for svg, BITMAP for jpg, jpeg or
\* png in any case of the letters, and EPS otherwise.
C36_FileClassification ==
    Included =>
        shin.filetype = IF shin.prefix = "pdffile=" THEN "PDF"
                        ELSE ByExtension(shin.fname)

\* the files of psfile= and PSfile= specials are classified by extension
C36_PsfileByExtension ==
    (Included /\ shin.prefix \in {"psfile=", "PSfile="}) =>
        shin.filetype = ByExtension(shin.fname)

\* the files of pdffile= specials are classified by extension as well
C36_PdffileByExtension ==
    (Included /\ shin.prefix = "pdffile=") =>
        shin.filetype = ByExtension(shin.fname)

\* the EPS file of a pdffile= special has been handed to imgfile as EPS
C36_PdffileAsEps ==
    /\ Included
    /\ shin.prefix = "pdffile=" /\ shin.fname = <<"a", ".", "e", "p", "s">>
    /\ shin.filetype = "EPS"

\* a psfile= special with an upper-case extension is a bitmap inclusion
C36_UpperCaseBitmap ==
    /\ Included
    /\ shin.prefix = "psfile=" /\ shin.fname = <<"a", ".", "J", "p", "e", "G">>
    /\ shin.filetype = "BITMAP"

\* imgfile has returned
ImgfileReturned ==
    \/ lastOp = "ImgDone"
    \/ lastOp = "Dispatch" /\ lastArg = 1 /\ pc = "idle"

\* C37: whatever the outcome of an imgfile call (early return, file not
\* found, empty subgroup or element emitted), the DVI cursor position after
\* the call is the position before the call.
C37_CursorRestored == ImgfileReturned => dviPos = dviBefore

\* an EPS file has been included away from the origin, and its group emitted
C37_Witness ==
    /\ lastOp = "ImgDone"
    /\ out # <<>>
    /\ dviBefore # Origin
    /\ dviPos = dviBefore

\* an inclusion away from the origin that emitted nothing
C37_WitnessEmpty ==
    /\ lastOp = "ImgDone"
    /\ out = <<>>
    /\ dviBefore # Origin

\* imgfile has returned early away from the origin
C37_WitnessEarly ==
    /\ lastOp = "Dispatch" /\ lastArg = 1 /\ pc = "idle"
    /\ out = <<>>
    /\ dviPos # Origin

\* while the included file is executed the DVI cursor is at the origin
C37_OriginInside == pc = "img" => dviPos = Origin

====
